---- MODULE Spec2Model ----
(***************************************************************************)
(* Save / load round trip of the Practice PPR workspace.                   *)
(*                                                                         *)
(* Writer : savePprPdf -> generatePdfDocument -> compressImagesAndBuild-   *)
(*          Payload, buildPdfPayload, renderSegmentImages,                 *)
(*          embedPayloadMetadata                  (ppr-module.js)          *)
(* Reader : loadPprPdf (ppr-files.js, ppr-module.js) ->                    *)
(*          readEmbeddedPprData, parsePprJson, extractImagesFromPdf,       *)
(*          reconstruction (reconstructPprDataFromPdf, pdf-loader.js),     *)
(*          applyLoadedData                                                *)
(*                                                                         *)
(* A data URL is a record [px, width, height, fmt, fragile]: px names the  *)
(* pixel content, fmt the encoding, fragile marks a file whose processing  *)
(* can fail.  A JavaScript object with optional fields is a record whose   *)
(* DOMAIN holds the fields that are present.                               *)
(*                                                                         *)
(* Callbacks in flight (FileReader loads, image measurements started by    *)
(* primeImageDimensions) are the entries of `pending`.                     *)
(*                                                                         *)
(* Spec        : fill the workspace one file at a time, save it, load the  *)
(*               saved file; callbacks complete in the order started and   *)
(*               a save or load starts when none is in flight.             *)
(* SpecRecon   : load PPR files written elsewhere, with and without        *)
(*               imageManifest and imagePlacements.                        *)
(* SpecReconLive: SpecRecon with the steps of a load weakly fair.          *)
(* SpecUneven  : load files whose imageManifest assigns images to other    *)
(*               segments than the manifest's counts declare.              *)
(* SpecResave  : load a saved file, save again.                            *)
(* SpecAmend   : load a saved file, add images, save.                      *)
(* SpecEdit    : drop files and remove images while callbacks of earlier   *)
(*               edits are in flight; callbacks complete in any order.     *)
(* SpecCompress: compressDataUrl on images of many sizes.                  *)
(* SpecScale   : the scale renderSegmentImages gives images of many sizes. *)
(* SpecLayout  : save workspaces of large photographs, page breaks.        *)
(* SpecBusy    : edit the workspace while a save is in progress.           *)
(* SpecCodec   : encodeForPdf and decodeFromPdf on strings of code units.  *)
(***************************************************************************)
EXTENDS Integers, Sequences, FiniteSets, TLC

(* ------------------------------------------------------------------ *)
(* Program constants                                                  *)
(* ------------------------------------------------------------------ *)
SEGMENT_COUNT == 4
MAX_IMAGES_PER_SEGMENT == 3
MIN_RENDERED_IMAGE_SIZE == 10
MAX_IMAGE_WIDTH == 1600
MAX_IMAGE_HEIGHT == 1600
\* jsPDF({ unit: 'pt', format: 'letter' })
PageWidth == 612
PageHeight == 792
\* PDF_LAYOUT
marginPt == 40
contentStartYPt == 90
textLineHeightPt == 16
imageGapPt == 14
segmentGapPt == 10

Segments == 1..SEGMENT_COUNT

\* SEGMENT_LABEL_LINES
SEGMENT_LABEL_LINES ==
  [s \in Segments |->
     CASE s = 1 -> <<"Procedure", "i.">>
       [] s = 2 -> <<"ii.">>
       [] s = 3 -> <<"List", "i.">>
       [] OTHER -> <<"ii.">>]

(* ------------------------------------------------------------------ *)
(* Bounds of the model                                                *)
(* ------------------------------------------------------------------ *)
\* failures the environment injects in one behaviour (compression reject,
\* addImage exception, extraction timeout)
MaxFaults == 1
\* save / load operations started in one behaviour
MaxOps == 2
\* images segment 1 declares in a file written elsewhere
MaxForeignCount == 2
\* images such a file holds
MaxForeignImages == 3
\* files dropped and images removed in an editing session
MaxEdits == 4
\* the segments edited in an editing session are 1..MaxEditSegment
MaxEditSegment == 2
\* images added to a loaded workspace
MaxAdded == 2
\* photographs are put in segments 1..MaxLayoutSegment, at most
\* MaxLayoutImages in each
MaxLayoutSegment == 2
MaxLayoutImages == 2

(* ------------------------------------------------------------------ *)
(* Small helpers                                                      *)
(* ------------------------------------------------------------------ *)
Min2(a, b) == IF a <= b THEN a ELSE b

RECURSIVE SumOver(_, _)
SumOver(f, S) ==
  IF S = {} THEN 0
  ELSE LET x == CHOOSE v \in S : TRUE IN f[x] + SumOver(f, S \ {x})

\* a field of an object is present
Has(obj, field) == field \in DOMAIN obj

EmptySegmentMap == [s \in Segments |-> <<>>]

\* createSegmentMap()
createSegmentMap == EmptySegmentMap

(* ------------------------------------------------------------------ *)
(* Images                                                             *)
(* ------------------------------------------------------------------ *)
\* The file the user picks for slot k of a segment: every slot has its own
\* pixel content, and heights differ so that page breaks fall both on a
\* segment's first image and inside a segment.
\* A fragile file is one whose processing can fail: its decode can be
\* rejected, jsPDF can refuse it, pdf.js can time out resolving it.
FragileSlots == {<<1, 1>>, <<2, 2>>, <<3, 3>>, <<4, 1>>}

\* the slot whose file is an image of a few pixels
TinySlot == <<4, 3>>

Catalogue(seg, k) ==
  [px |-> 10 * seg + k,
   width |-> IF <<seg, k>> = TinySlot THEN 4 ELSE 400,
   height |-> IF <<seg, k>> = TinySlot THEN 4 ELSE 150 + 90 * ((seg + k) % 3),
   fmt |-> "raw",
   fragile |-> <<seg, k>> \in FragileSlots]

\* typeof x === 'string'
IsString(x) == x.fmt # "object"

\* 2^n
RECURSIVE Pow2(_)
Pow2(n) == IF n = 0 THEN 1 ELSE 2 * Pow2(n - 1)

\* (m * 2^k) % d, by doubling
RECURSIVE PowMod2(_, _, _)
PowMod2(m, k, d) == IF k = 0 THEN m % d ELSE (2 * PowMod2(m, k - 1, d)) % d

\* the j >= from with 2^-j <= m / d < 2^-(j-1), for m < d
RECURSIVE BinadeOf(_, _, _)
BinadeOf(m, d, from) ==
  IF m * Pow2(from) >= d THEN from ELSE BinadeOf(m, d, from + 1)

\* the e with 2^e <= n < 2^(e+1)
RECURSIVE ExponentOf(_, _)
ExponentOf(n, from) ==
  IF Pow2(from + 1) > n THEN from ELSE ExponentOf(n, from + 1)

\* Math.floor(x * (m / d)) in IEEE 754 double arithmetic, for integers
\* 0 < m < d < 2^14, 0 < x and x * m / d < 2^11.  The quotient m / d is
\* rounded to a double q with 53 significant bits (to nearest, ties to even):
\* q * d * 2^k = m * 2^k + delta with k = 52 + j.  The product x * q is
\* rounded again.  When x * m / d is not an integer both errors are too small
\* to reach the next integer; when it is an integer n and the quotient was
\* rounded down, the product is below n and is rounded back up to n only if
\* it is within half a spacing of the doubles below n.
ScaledFloor(x, m, d) ==
  LET \* delta, from rem = (m * 2^k) % d and the last bit of the quotient
      QuotientError(rem, lastBit) ==
        IF (2 * rem > d) \/ (2 * rem = d /\ lastBit % 2 = 1)
          THEN d - rem
          ELSE 0 - rem
      \* half the spacing below n is 2^(e-53), or 2^(e-54) if n = 2^e
      SpacingShift(j, n, e) == IF n > Pow2(e) THEN j + e - 1 ELSE j + e - 2
      RoundedBackUp(delta, shift) ==
        IF shift >= 0 THEN x * (0 - delta) <= d * Pow2(shift)
        ELSE x * (0 - delta) * Pow2(0 - shift) <= d
      FloorOf(n, r, delta, shift) ==
        IF r > 0 \/ delta >= 0 THEN n
        ELSE IF RoundedBackUp(delta, shift) THEN n ELSE n - 1
      \* j the binade of m / d, k = 52 + j, n = floor(x * m / d)
      FloorAt(j, n) ==
        FloorOf(n, (x * m) % d,
                QuotientError(PowMod2(m, 52 + j, d),
                              (2 * PowMod2(m, 51 + j, d)) \div d),
                SpacingShift(j, n, ExponentOf(n, 0)))
  IN FloorAt(BinadeOf(m, d, 1), (x * m) \div d)

\* a compression that scales by the width limit alone
WidthOnlyCompressedSize(w, h, maxWidth, maxHeight) ==
  IF w > maxWidth \/ h > maxHeight
    THEN IF w > maxWidth
           THEN <<ScaledFloor(w, maxWidth, w), ScaledFloor(h, maxWidth, w)>>
           ELSE <<w, h>>
    ELSE <<w, h>>

\* compressDataUrl, img.onload: the size of the canvas
CompressedSize(w, h, maxWidth, maxHeight) ==
  IF w > maxWidth \/ h > maxHeight
    THEN \* scale = Math.min(maxWidth / width, maxHeight / height);
         \* width = Math.floor(width * scale), height likewise
         IF maxWidth * h <= maxHeight * w
           THEN <<ScaledFloor(w, maxWidth, w), ScaledFloor(h, maxWidth, w)>>
           ELSE <<ScaledFloor(w, maxHeight, h), ScaledFloor(h, maxHeight, h)>>
    ELSE <<w, h>>

\* compressDataUrl: draw into a canvas no larger than the limits, re-encode as PNG
compressDataUrl(dataUrl) ==
  LET sz == CompressedSize(dataUrl.width, dataUrl.height,
                           MAX_IMAGE_WIDTH, MAX_IMAGE_HEIGHT)
  IN [px |-> dataUrl.px, width |-> sz[1], height |-> sz[2], fmt |-> "png",
      fragile |-> dataUrl.fragile]

(* ------------------------------------------------------------------ *)
(* Metadata codec                                                     *)
(* ------------------------------------------------------------------ *)
PDF_METADATA_KEYWORD_PREFIX == "PPRDATA:"

\* JSON.stringify(payload): text that parses back to the object
JsonStringify(obj) == [text |-> "json", kind |-> "object", value |-> obj]

\* JSON text for an array and for a number: what JSON.parse gives for them is
\* an object without named fields, and a value that is not an object
JsonArrayText == [text |-> "json", kind |-> "array", value |-> <<>>]
JsonNumberText == [text |-> "json", kind |-> "number", value |-> <<>>]

\* encodeForPdf: UTF-8 bytes, then Base64
encodeForPdf(str) == [alphabet |-> "base64", bytes |-> str]

\* decodeFromPdf: atob throws outside the alphabet, caught, null
Null == [null |-> TRUE]
decodeFromPdf(b64) ==
  IF "alphabet" \in DOMAIN b64 /\ b64.alphabet = "base64" THEN b64.bytes ELSE Null

(* ------------------------------------------------------------------ *)
(* Metadata codec on text: strings are sequences of UTF-16 code units, *)
(* Base64 text is a sequence of one-character strings                  *)
(* ------------------------------------------------------------------ *)
MaxLen == 3

\* 'A', e acute, the euro sign, the two halves of U+1F600, U+FEFF
CodeUnits == {65, 233, 8364, 55357, 56832, 65279}
Strings == UNION {[1..n -> CodeUnits] : n \in 0..MaxLen}

IsHighSurrogate(u) == u \in 55296..56319
IsLowSurrogate(u) == u \in 56320..57343

\* the conversion of the argument of TextEncoder.encode to scalar values: a
\* surrogate pair is one code point, an unpaired surrogate is U+FFFD
RECURSIVE ToScalarValues(_)
ToScalarValues(str) ==
  IF Len(str) = 0 THEN <<>>
  ELSE IF IsHighSurrogate(str[1]) /\ Len(str) >= 2 /\ IsLowSurrogate(str[2])
    THEN <<65536 + (str[1] - 55296) * 1024 + (str[2] - 56320)>>
           \o ToScalarValues(SubSeq(str, 3, Len(str)))
  ELSE IF IsHighSurrogate(str[1]) \/ IsLowSurrogate(str[1])
    THEN <<65533>> \o ToScalarValues(Tail(str))
  ELSE <<str[1]>> \o ToScalarValues(Tail(str))

\* the UTF-8 bytes of one scalar value
Utf8Bytes(cp) ==
  IF cp < 128 THEN <<cp>>
  ELSE IF cp < 2048 THEN <<192 + (cp \div 64), 128 + (cp % 64)>>
  ELSE IF cp < 65536
    THEN <<224 + (cp \div 4096), 128 + ((cp \div 64) % 64), 128 + (cp % 64)>>
  ELSE <<240 + (cp \div 262144), 128 + ((cp \div 4096) % 64),
         128 + ((cp \div 64) % 64), 128 + (cp % 64)>>

RECURSIVE Utf8Encode(_)
Utf8Encode(cps) ==
  IF Len(cps) = 0 THEN <<>> ELSE Utf8Bytes(cps[1]) \o Utf8Encode(Tail(cps))

\* new TextEncoder().encode(str)
TextEncoderEncode(str) == Utf8Encode(ToScalarValues(str))

Base64Alphabet ==
  <<"A", "B", "C", "D", "E", "F", "G", "H", "I", "J", "K", "L", "M", "N", "O",
    "P", "Q", "R", "S", "T", "U", "V", "W", "X", "Y", "Z", "a", "b", "c", "d",
    "e", "f", "g", "h", "i", "j", "k", "l", "m", "n", "o", "p", "q", "r", "s",
    "t", "u", "v", "w", "x", "y", "z", "0", "1", "2", "3", "4", "5", "6", "7",
    "8", "9", "+", "/">>
Base64Char(i) == Base64Alphabet[i + 1]
Base64Chars == {Base64Alphabet[i] : i \in 1..64}
Base64Index(c) == CHOOSE i \in 0..63 : Base64Alphabet[i + 1] = c

\* btoa(binary): three bytes give four characters, the tail is padded
RECURSIVE btoa(_)
btoa(binary) ==
  IF Len(binary) = 0 THEN <<>>
  ELSE IF Len(binary) = 1
    THEN <<Base64Char(binary[1] \div 4), Base64Char((binary[1] % 4) * 16),
           "=", "=">>
  ELSE IF Len(binary) = 2
    THEN <<Base64Char(binary[1] \div 4),
           Base64Char((binary[1] % 4) * 16 + (binary[2] \div 16)),
           Base64Char((binary[2] % 16) * 4), "=">>
  ELSE <<Base64Char(binary[1] \div 4),
         Base64Char((binary[1] % 4) * 16 + (binary[2] \div 16)),
         Base64Char((binary[2] % 16) * 4 + (binary[3] \div 64)),
         Base64Char(binary[3] % 64)>>
         \o btoa(SubSeq(binary, 4, Len(binary)))

\* encodeForPdf on text: btoa of the UTF-8 bytes
encodeForPdfText(str) == btoa(TextEncoderEncode(str))

\* atob, the padding removed: groups of four, three or two characters
RECURSIVE Base64Bytes(_)
Base64Bytes(data) ==
  IF Len(data) < 2 THEN <<>>
  ELSE
    LET a == Base64Index(data[1])
        b == Base64Index(data[2])
        first == (a * 4 + (b \div 16)) % 256
    IN IF Len(data) = 2 THEN <<first>>
       ELSE LET c == Base64Index(data[3])
                second == ((b % 16) * 16 + (c \div 4)) % 256
            IN IF Len(data) = 3 THEN <<first, second>>
               ELSE <<first, second,
                      ((c % 4) * 64 + Base64Index(data[4])) % 256>>
                      \o Base64Bytes(SubSeq(data, 5, Len(data)))

\* atob(b64): at most two trailing '=' of a text whose length is a multiple
\* of four are dropped; a character outside the alphabet or a remainder of
\* one character throws (Null here); the texts here hold no white space
atob(b64) ==
  LET n == Len(b64)
      padding ==
        IF n % 4 = 0 /\ n > 0 /\ b64[n] = "="
          THEN (IF b64[n - 1] = "=" THEN 2 ELSE 1)
          ELSE 0
      data == SubSeq(b64, 1, n - padding)
  IN IF \E i \in 1..Len(data) : data[i] \notin Base64Chars THEN Null
     ELSE IF Len(data) % 4 = 1 THEN Null
     ELSE [binary |-> Base64Bytes(data)]

IsContinuation(bytes, i) == i <= Len(bytes) /\ bytes[i] \in 128..191

\* code units that keep the low sixteen bits only
BmpOnlyUtf16Units(cp) ==
  <<cp % 65536>>

\* the UTF-16 code units of one scalar value
Utf16Units(cp) ==
  IF cp < 65536 THEN <<cp>>
  ELSE <<55296 + ((cp - 65536) \div 1024), 56320 + ((cp - 65536) % 1024)>>

\* UTF-8 decoding with replacement: an ill-formed byte gives U+FFFD
RECURSIVE Utf8Decode(_)
Utf8Decode(bytes) ==
  IF Len(bytes) = 0 THEN <<>>
  ELSE
    LET b == bytes[1]
        rest(k) == SubSeq(bytes, k + 1, Len(bytes))
    IN IF b < 128 THEN <<b>> \o Utf8Decode(rest(1))
       ELSE IF b \in 194..223 /\ IsContinuation(bytes, 2)
         THEN <<(b - 192) * 64 + (bytes[2] - 128)>> \o Utf8Decode(rest(2))
       ELSE IF b \in 224..239 /\ IsContinuation(bytes, 2)
               /\ IsContinuation(bytes, 3)
               /\ (b - 224) * 4096 + (bytes[2] - 128) * 64 >= 2048
               /\ (b - 224) * 4096 + (bytes[2] - 128) * 64 \notin 55296..57343
         THEN <<(b - 224) * 4096 + (bytes[2] - 128) * 64 + (bytes[3] - 128)>>
                \o Utf8Decode(rest(3))
       ELSE IF b \in 240..244 /\ IsContinuation(bytes, 2)
               /\ IsContinuation(bytes, 3) /\ IsContinuation(bytes, 4)
               /\ (b - 240) * 262144 + (bytes[2] - 128) * 4096 \in 65536..1114111
         THEN Utf16Units((b - 240) * 262144 + (bytes[2] - 128) * 4096
                           + (bytes[3] - 128) * 64 + (bytes[4] - 128))
                \o Utf8Decode(rest(4))
       ELSE <<65533>> \o Utf8Decode(rest(1))

\* new TextDecoder().decode(bytes): ignoreBOM is false, a leading byte order
\* mark is not part of the result
TextDecoderDecode(bytes) ==
  IF Len(bytes) >= 3 /\ SubSeq(bytes, 1, 3) = <<239, 187, 191>>
    THEN Utf8Decode(SubSeq(bytes, 4, Len(bytes)))
    ELSE Utf8Decode(bytes)

\* decodeFromPdf on text: atob, then the decoder; null when atob throws, the
\* decoded string otherwise
decodeFromPdfText(b64) ==
  IF atob(b64) = Null THEN Null
  ELSE [string |-> TextDecoderDecode(atob(b64).binary)]

(* ------------------------------------------------------------------ *)
(* State                                                              *)
(* ------------------------------------------------------------------ *)
VARIABLES
  segmentImages,          \* ppr-state.js: segment -> ordered data URLs
  imageCompressionState,  \* ppr-state.js: segment -> flags, aligned by index
  isModified,             \* ppr-module.js: unsaved-changes flag
  save,                   \* locals of the running savePprPdf / generatePdfDocument
  doc,                    \* the jsPDF document being written
  pdfFile,                \* the file doc.save() wrote
  load,                   \* locals of the running loadPprPdf / reconstruction
  faults,                 \* failures injected so far
  ops,                    \* save / load operations started so far
  imageProcessingErrors,  \* ppr-state.js: segment -> error flags, by index
  imageDimensions,        \* ppr-state.js: segment -> cached sizes, by index
  pending                 \* callbacks in flight: file reads, measurements

vars == <<segmentImages, imageCompressionState, isModified, save, doc, pdfFile,
          load, faults, ops, imageProcessingErrors, imageDimensions, pending>>

NoFile == [pages |-> 0]
NewDoc == [pages |-> 1, texts |-> <<>>, images |-> <<>>]

SaveIdle == [pc |-> "idle"]
LoadIdle == [pc |-> "idle"]

\* a load has run to its end: applyLoadedData was called
Loaded == load.pc = "idle" /\ Has(load, "outcome") /\ load.outcome = "loaded"

Idle == save.pc = "idle" /\ load.pc = "idle"

\* the load button is disabled: a click on it does not call loadPprPdf
LoadDisabled == Has(load, "loadBtnDisabled") /\ load.loadBtnDisabled

\* outcomes the environment may pick for a step on an image
Outcomes(image, failures) ==
  {"ok"} \cup (IF image.fragile /\ faults < MaxFaults THEN failures ELSE {})
Charge(outcome) == IF outcome = "ok" THEN faults ELSE faults + 1

(* ------------------------------------------------------------------ *)
(* Workspace Store                                                    *)
(* ------------------------------------------------------------------ *)
\* a slot of a JavaScript array that was never assigned
Undefined == [undefined |-> TRUE]

\* array[index] = value on a JavaScript array, index counted from 0: an
\* index past the end lengthens the array and leaves holes before it
ArrayStore(array, index, value) ==
  IF index < Len(array)
    THEN [array EXCEPT ![index + 1] = value]
    ELSE [i \in 1..(index + 1) |->
            IF i <= Len(array) THEN array[i]
            ELSE IF i = index + 1 THEN value ELSE Undefined]

\* array.splice(index, 1)
Splice(array, index) ==
  [i \in 1..(Len(array) - (IF index < Len(array) THEN 1 ELSE 0)) |->
     IF i <= index THEN array[i] ELSE array[i + 1]]

\* measureImageDimensions resolves with the natural size of the image
measureImageDimensions(dataUrl) ==
  [width |-> dataUrl.width, height |-> dataUrl.height]

\* getCachedImageDimensions(segmentNum, index)
getCachedImageDimensions(segmentNum, index) ==
  IF index < Len(imageDimensions[segmentNum])
     /\ Has(imageDimensions[segmentNum][index + 1], "width")
    THEN imageDimensions[segmentNum][index + 1]
    ELSE Null

\* storeImageDimensions(segmentNum, index, dimensions)
storeImageDimensions(dimensionsMap, segmentNum, index, dimensions) ==
  [dimensionsMap EXCEPT ![segmentNum] = ArrayStore(@, index, dimensions)]

\* primeImageDimensions(segmentNum, index, dataUrl): the measurement it
\* starts, which keeps the index it was started with
primeImageDimensions(segmentNum, index, dataUrl) ==
  [kind |-> "measure", segmentNum |-> segmentNum, index |-> index,
   dataUrl |-> dataUrl]

\* the callbacks in flight without the i-th one
Others(i) == [j \in 1..(Len(pending) - 1) |->
                IF j < i THEN pending[j] ELSE pending[j + 1]]

\* addImage(dataUrl, segmentNum), called while `inFlight` are in flight
addImage(dataUrl, segmentNum, inFlight) ==
  /\ segmentImages' =
       [segmentImages EXCEPT ![segmentNum] = Append(@, dataUrl)]
  /\ imageCompressionState' =
       [imageCompressionState EXCEPT ![segmentNum] = Append(@, FALSE)]
  /\ imageProcessingErrors' =
       [imageProcessingErrors EXCEPT ![segmentNum] = Append(@, FALSE)]
  /\ imageDimensions' =
       [imageDimensions EXCEPT ![segmentNum] = Append(@, Null)]
  /\ pending' =
       Append(inFlight,
              primeImageDimensions(segmentNum, Len(segmentImages[segmentNum]),
                                   dataUrl))
  /\ isModified' = TRUE

\* removeImage(index, segmentNum)
removeImage(index, segmentNum) ==
  /\ segmentImages' = [segmentImages EXCEPT ![segmentNum] = Splice(@, index)]
  /\ imageCompressionState' =
       [imageCompressionState EXCEPT ![segmentNum] = Splice(@, index)]
  /\ imageProcessingErrors' =
       [imageProcessingErrors EXCEPT ![segmentNum] = Splice(@, index)]
  /\ imageDimensions' =
       [imageDimensions EXCEPT ![segmentNum] = Splice(@, index)]
  /\ isModified' = TRUE

\* handleFiles(files, segmentNum): a FileReader is started for each of the
\* first remainingSlots files; remainingSlots is computed now, addImage runs
\* when a read completes
handleFiles(files, segmentNum) ==
  LET remainingSlots == MAX_IMAGES_PER_SEGMENT - Len(segmentImages[segmentNum])
      filesToAdd == SubSeq(files, 1, Min2(Len(files), remainingSlots))
  IN /\ pending' = pending \o
                     [i \in 1..Len(filesToAdd) |->
                        [kind |-> "read", segmentNum |-> segmentNum,
                         dataUrl |-> filesToAdd[i]]]
     /\ UNCHANGED <<segmentImages, imageCompressionState, isModified, save,
                    doc, pdfFile, load, faults, imageProcessingErrors,
                    imageDimensions>>

\* reader.onload of the i-th callback in flight: addImage(e.target.result,
\* segmentNum)
readerOnload(i) ==
  /\ i <= Len(pending)
  /\ pending[i].kind = "read"
  /\ addImage(pending[i].dataUrl, pending[i].segmentNum, Others(i))
  /\ UNCHANGED <<save, doc, pdfFile, load, faults, ops>>

\* the measurement started by primeImageDimensions completes: the size is
\* stored at the index the measurement was started with; a failed image load
\* is caught and stores nothing
measureDone(i) ==
  /\ i <= Len(pending)
  /\ pending[i].kind = "measure"
  /\ \E outcome \in Outcomes(pending[i].dataUrl, {"error"}) :
       /\ faults' = Charge(outcome)
       /\ imageDimensions' =
            IF outcome = "ok"
              THEN storeImageDimensions(imageDimensions, pending[i].segmentNum,
                     pending[i].index,
                     measureImageDimensions(pending[i].dataUrl))
              ELSE imageDimensions
  /\ pending' = Others(i)
  /\ UNCHANGED <<segmentImages, imageCompressionState, isModified, save, doc,
                 pdfFile, load, ops, imageProcessingErrors>>

\* nothing is in flight
Quiet == pending = <<>>

\* the Workspace Store: the image lists and the per-image metadata
WorkspaceStore ==
  [images |-> segmentImages, compression |-> imageCompressionState,
   errors |-> imageProcessingErrors, dimensions |-> imageDimensions]

\* the upload area is clicked and one file is chosen in the dialog: the
\* dialog opens while the segment has a free slot.  The user fills the
\* workspace before the first save or load, one file at a time.
selectFiles ==
  /\ Idle
  /\ Quiet
  /\ ops = 0
  /\ \E segmentNum \in Segments :
       /\ Len(segmentImages[segmentNum]) < MAX_IMAGES_PER_SEGMENT
       /\ handleFiles(<<Catalogue(segmentNum,
                                  Len(segmentImages[segmentNum]) + 1)>>,
                      segmentNum)
  /\ UNCHANGED ops

(* ------------------------------------------------------------------ *)
(* Document Writer                                                    *)
(* ------------------------------------------------------------------ *)
\* an alias numbered from zero
ZeroBasedAlias(segment, k) ==
  [seg |-> segment, img |-> k - 1]

\* `seg${segment}-img${i + 1}`
Alias(segment, k) == [seg |-> segment, img |-> k]

\* first loop position at or after (segment, idx) that holds an image, in
\* "for segment = 1..SEGMENT_COUNT, for idx < imgs.length" order
RECURSIVE LoopPosN(_, _, _, _)
LoopPosN(imgs, last, outer, inner) ==
  IF outer > last THEN <<outer, 0>>
  ELSE IF inner < Len(imgs[outer]) THEN <<outer, inner>>
  ELSE LoopPosN(imgs, last, outer + 1, 0)

LoopPos(imgs, segment, idx) == LoopPosN(imgs, SEGMENT_COUNT, segment, idx)

\* the save button left clickable while a save runs
LeaveSaveBtnEnabled == FALSE

\* savePprPdf: saveBtn.disabled = true
disableSaveBtn == TRUE

\* the save button is disabled: a click on it does not call savePprPdf
SaveDisabled == Has(save, "saveBtnDisabled") /\ save.saveBtnDisabled

\* savePprPdf: hasImages, new jsPDF, generatePdfDocument starts; the error
\* toast of an earlier failed load has expired by then (TOAST_DURATION)
savePprPdf ==
  /\ ~SaveDisabled
  /\ load.pc = "idle"
  /\ Quiet
  /\ ops < MaxOps
  /\ ops' = ops + 1
  /\ \E s \in Segments : Len(segmentImages[s]) > 0
  /\ doc' = NewDoc
  /\ save' = [pc |-> "compress", segment |-> 1, idx |-> 0,
              compressedImages |-> EmptySegmentMap,
              compressionFailures |-> <<>>,
              compressCalls |-> <<>>,
              before |-> WorkspaceStore,
              saveBtnDisabled |-> disableSaveBtn]
  /\ load' = IF Loaded \/ LoadDisabled THEN load ELSE LoadIdle
  /\ UNCHANGED <<segmentImages, imageCompressionState, isModified, pdfFile,
                 faults,
                 imageProcessingErrors, imageDimensions, pending>>

\* setImageProcessingError(segmentNum, index, hasError)
setImageProcessingError(segmentNum, index, hasError) ==
  [imageProcessingErrors EXCEPT ![segmentNum] = ArrayStore(@, index, hasError)]

\* a compression loop that trusts no image
RecompressAllCompressImage ==
  /\ save.pc = "compress"
  /\ LET pos == LoopPos(segmentImages, save.segment, save.idx)
         segment == pos[1]
         idx == pos[2]
     IN /\ segment <= SEGMENT_COUNT
        /\ LET dataUrl == segmentImages[segment][idx + 1]
               isPreCompressed == FALSE
               \* compressDataUrlFn is called for this image or not
               calls == IF isPreCompressed THEN <<>>
                        ELSE <<[segment |-> segment, index |-> idx]>>
           IN \E outcome \in
                  (IF isPreCompressed THEN {"ok"}
                   ELSE Outcomes(dataUrl, {"reject"})) :
                /\ faults' = Charge(outcome)
                /\ save' =
                     IF outcome = "ok"
                       THEN [save EXCEPT
                               !.segment = segment, !.idx = idx + 1,
                               !.compressCalls = @ \o calls,
                               !.compressedImages[segment] =
                                  Append(@, IF isPreCompressed THEN dataUrl
                                            ELSE compressDataUrl(dataUrl))]
                       ELSE [save EXCEPT
                               !.segment = segment, !.idx = idx + 1,
                               !.compressCalls = @ \o calls,
                               !.compressionFailures =
                                  Append(@, [segment |-> segment, index |-> idx])]
                /\ imageProcessingErrors' =
                     IF outcome = "ok"
                       THEN IF imageProcessingErrors[segment][idx + 1] = TRUE
                              THEN setImageProcessingError(segment, idx, FALSE)
                              ELSE imageProcessingErrors
                       ELSE setImageProcessingError(segment, idx, TRUE)
  /\ UNCHANGED <<segmentImages, imageCompressionState, isModified, doc, pdfFile,
                 load, ops, imageDimensions, pending>>

\* compressImagesAndBuildPayload: one iteration of the inner loop
compressImage ==
  /\ save.pc = "compress"
  /\ LET pos == LoopPos(segmentImages, save.segment, save.idx)
         segment == pos[1]
         idx == pos[2]
     IN /\ segment <= SEGMENT_COUNT
        /\ LET dataUrl == segmentImages[segment][idx + 1]
               isPreCompressed == imageCompressionState[segment][idx + 1]
               \* compressDataUrlFn is called for this image or not
               calls == IF isPreCompressed THEN <<>>
                        ELSE <<[segment |-> segment, index |-> idx]>>
           IN \E outcome \in
                  (IF isPreCompressed THEN {"ok"}
                   ELSE Outcomes(dataUrl, {"reject"})) :
                /\ faults' = Charge(outcome)
                /\ save' =
                     IF outcome = "ok"
                       THEN [save EXCEPT
                               !.segment = segment, !.idx = idx + 1,
                               !.compressCalls = @ \o calls,
                               !.compressedImages[segment] =
                                  Append(@, IF isPreCompressed THEN dataUrl
                                            ELSE compressDataUrl(dataUrl))]
                       ELSE [save EXCEPT
                               !.segment = segment, !.idx = idx + 1,
                               !.compressCalls = @ \o calls,
                               !.compressionFailures =
                                  Append(@, [segment |-> segment, index |-> idx])]
                /\ imageProcessingErrors' =
                     IF outcome = "ok"
                       THEN IF imageProcessingErrors[segment][idx + 1] = TRUE
                              THEN setImageProcessingError(segment, idx, FALSE)
                              ELSE imageProcessingErrors
                       ELSE setImageProcessingError(segment, idx, TRUE)
  /\ UNCHANGED <<segmentImages, imageCompressionState, isModified, doc, pdfFile,
                 load, ops, imageDimensions, pending>>

\* a manifest that lists the first image of every segment only
RECURSIVE FirstOnlyManifestFrom(_, _)
FirstOnlyManifestFrom(compressedImages, segment) ==
  IF segment > SEGMENT_COUNT THEN <<>>
  ELSE [i \in 1..Min2(1, Len(compressedImages[segment])) |->
          [alias |-> Alias(segment, i), segment |-> segment]]
       \o FirstOnlyManifestFrom(compressedImages, segment + 1)

\* buildPdfPayload: the alias manifest, segment ascending
RECURSIVE ManifestFrom(_, _)
ManifestFrom(compressedImages, segment) ==
  IF segment > SEGMENT_COUNT THEN <<>>
  ELSE [i \in 1..Len(compressedImages[segment]) |->
          [alias |-> Alias(segment, i), segment |-> segment]]
       \o ManifestFrom(compressedImages, segment + 1)

buildPdfPayload(compressedImages, studentName, timestamp) ==
  [payload |->
     [studentName |-> studentName,
      segments |-> [s \in Segments |-> Len(compressedImages[s])],
      timestamp |-> timestamp,
      imageManifest |-> ManifestFrom(compressedImages, 1)],
   aliasMap |->
     [s \in Segments |->
        [i \in 1..Len(compressedImages[s]) |-> Alias(s, i)]]]

\* embedPayloadMetadata: doc.setProperties({ ..., keywords })
embedPayloadMetadata(d, payload, studentName) ==
  [images |-> d.images, pages |-> d.pages, texts |-> d.texts,
   author |-> studentName,
   keywords |-> [prefix |-> PDF_METADATA_KEYWORD_PREFIX,
                 payload |-> encodeForPdf(JsonStringify(payload))]]

\* generatePdfDocument between buildPdfPayload and renderSegmentImages: the
\* name line and the title are drawn on page 1
EarlyEmbedDrawHeader(d, payload, studentName) ==
  embedPayloadMetadata(
    [d EXCEPT !.texts = @ \o <<[page |-> 1, y |-> 40, text |-> "Name:"],
                               [page |-> 1, y |-> 60, text |-> "title"]>>],
    payload, studentName)
drawHeader(d, payload, studentName) ==
  [d EXCEPT !.texts = @ \o <<[page |-> 1, y |-> 40, text |-> "Name:"],
                             [page |-> 1, y |-> 60, text |-> "title"]>>]

\* ensureAllImageDimensions(compressedImages) on one segment, from `index`
\* on: the size of every image without a cached size is measured and stored
RECURSIVE EnsureDimensionsFrom(_, _, _)
EnsureDimensionsFrom(dimensions, imgs, index) ==
  IF index >= Len(imgs) THEN dimensions
  ELSE EnsureDimensionsFrom(
         IF index < Len(dimensions) /\ Has(dimensions[index + 1], "width")
           THEN dimensions
           ELSE ArrayStore(dimensions, index,
                           measureImageDimensions(imgs[index + 1])),
         imgs, index + 1)

ensureAllImageDimensions(compressedImages) ==
  [segment \in Segments |->
     EnsureDimensionsFrom(imageDimensions[segment], compressedImages[segment], 0)]

\* generatePdfDocument after the compression loop; renderSegmentImages
\* starts with ensureAllImageDimensions
compressDone ==
  /\ save.pc = "compress"
  /\ LoopPos(segmentImages, save.segment, save.idx)[1] > SEGMENT_COUNT
  /\ IF save.compressionFailures # <<>>
       THEN \* throw IMAGE_COMPRESSION_FAILED; finalize(false)
            /\ save' = SaveIdle
            /\ UNCHANGED <<doc, imageDimensions>>
       ELSE LET built == buildPdfPayload(save.compressedImages, "name", "time")
            IN /\ doc' = drawHeader(doc, built.payload, "name")
               /\ save' = [pc |-> "render",
                           compressedImages |-> save.compressedImages,
                           payload |-> built.payload,
                           aliasMap |-> built.aliasMap,
                           segment |-> 1, imgIdx |-> 0,
                           y |-> contentStartYPt,
                           currentPageNumber |-> 1,
                           pageImageCount |-> <<0>>,
                           isFirstImageInSegment |-> TRUE,
                           imagePlacements |-> <<>>,
                           skippedImages |-> <<>>,
                           embeddedCount |-> 0,
                           before |-> save.before,
                           saveBtnDisabled |-> save.saveBtnDisabled]
               /\ imageDimensions' =
                    ensureAllImageDimensions(save.compressedImages)
  /\ UNCHANGED <<segmentImages, imageCompressionState, isModified, pdfFile,
                 load, faults, ops, imageProcessingErrors, pending>>

\* x * (m / d) in IEEE 754 double arithmetic, for integers 0 < m <= d < 2^14
\* and 0 < x with x * m / d < 2^11, as the largest integer not above the
\* product and what the product has in excess of it: "none" (the product is
\* that integer), "ulp" (it is the next double above the integer) or
\* "fraction" (it lies further inside the unit interval).  The quotient is
\* rounded as in ScaledFloor; when x * m / d is an integer n and the quotient
\* was rounded up, the product is above n and is rounded back to n only if it
\* is within half a spacing of the doubles above n, else to the next double.
ScaledProduct(x, m, d) ==
  LET \* j the binade of m / d, k = 52 + j, n = floor(x * m / d), and
      \* floorBelow the floor of the product when the quotient was rounded down
      Product(j, n, floorBelow) ==
        LET rem == PowMod2(m, 52 + j, d)
            lastBit == (2 * PowMod2(m, 51 + j, d)) \div d
            roundUp == (2 * rem > d) \/ (2 * rem = d /\ lastBit % 2 = 1)
            delta == IF roundUp THEN d - rem ELSE 0 - rem
            shift == j + ExponentOf(n, 0) - 1
        IN IF m = d THEN [floor |-> x, excess |-> "none"]
           ELSE IF (x * m) % d > 0 THEN [floor |-> n, excess |-> "fraction"]
           ELSE IF rem = 0 THEN [floor |-> n, excess |-> "none"]
           ELSE IF ~roundUp
             THEN IF floorBelow = n
                    THEN [floor |-> n, excess |-> "none"]
                    ELSE [floor |-> n - 1, excess |-> "fraction"]
           ELSE IF (IF shift >= 0 THEN x * delta <= d * Pow2(shift)
                    ELSE x * delta * Pow2(0 - shift) <= d)
             THEN [floor |-> n, excess |-> "none"]
           ELSE [floor |-> n, excess |-> "ulp"]
  IN Product(BinadeOf(m, d, 1), (x * m) \div d, ScaledFloor(x, m, d))

\* a scale that looks at the width alone
WidthOnlyRenderScale(props, maxW, maxH) ==
  IF props.width <= maxW THEN <<1, 1>> ELSE <<maxW, props.width>>

\* scale = Math.min(maxW / props.width, maxH / props.height, 1), as the pair
\* <<m, d>> of the quotient m / d that is the least of the three; rounding
\* keeps the order of the quotients, so the least is chosen exactly
renderScale(props, maxW, maxH) ==
  IF props.width <= maxW /\ props.height <= maxH THEN <<1, 1>>
  ELSE IF maxW * props.height <= maxH * props.width
    THEN <<maxW, props.width>>
    ELSE <<maxH, props.height>>

\* w = props.width * scale; h = props.height * scale
RenderedSize(props, maxW, maxH) ==
  LET SizeAt(scale) == <<ScaledProduct(props.width, scale[1], scale[2]),
                         ScaledProduct(props.height, scale[1], scale[2])>>
  IN SizeAt(renderScale(props, maxW, maxH))

\* the rendered size in whole points, as the layout of the model uses it
RenderSize(props, maxW, maxH) ==
  LET Floors(size) == <<size[1].floor, size[2].floor>>
  IN Floors(RenderedSize(props, maxW, maxH))

\* shouldSkipForSize(original, renderedWidth, renderedHeight, maxWidth, maxHeight)
shouldSkipForSize(original, renderedWidth, renderedHeight, maxWidth, maxHeight) ==
  LET minWidth == Min2(MIN_RENDERED_IMAGE_SIZE, maxWidth \div 20)
      minHeight == Min2(MIN_RENDERED_IMAGE_SIZE, maxHeight \div 20)
  IN /\ (renderedWidth < minWidth \/ renderedHeight < minHeight)
     /\ \/ (original.width < minWidth /\ original.height < minHeight)
        \/ (2 * renderedWidth < minWidth \/ 2 * renderedHeight < minHeight)

\* getSkipReasonForSize(...).code
getSkipReasonForSize(isFirstImageInSegment, segLines) ==
  LET lacksLabelSpace ==
        PageHeight - marginPt * 2 - Len(segLines) * textLineHeightPt <= 0
  IN IF ~isFirstImageInSegment THEN "tooSmall"
     ELSE IF lacksLabelSpace THEN "noSpaceAfterLabels" ELSE "tooSmall"

\* a skip that leaves no record
SilentRecordSkip(r, segmentNum, imageIndex, reason) == r

\* recordSkip(segmentNum, imageIndex, reason)
recordSkip(r, segmentNum, imageIndex, reason) ==
  [r EXCEPT !.skippedImages =
     Append(@, [segment |-> segmentNum, index |-> imageIndex, reason |-> reason])]

\* recordPlacement(segment, alias): the per-page counter, then the record
recordPlacement(r, segment, alias) ==
  LET count == r.pageImageCount[r.currentPageNumber] + 1
  IN [r EXCEPT !.pageImageCount[r.currentPageNumber] = count,
               !.imagePlacements =
                  Append(@, [alias |-> alias, segment |-> segment,
                             page |-> r.currentPageNumber, order |-> count])]

\* doc.addPage(); currentPageNumber = resolvePageNumber(); y = margin
addPage(st) ==
  [r |-> [st.r EXCEPT !.currentPageNumber = st.d.pages + 1,
                      !.y = marginPt,
                      !.pageImageCount = Append(@, 0)],
   d |-> [st.d EXCEPT !.pages = @ + 1]]

\* doc.text(line, margin, y); y += textLineHeightPt, for each line
RECURSIVE drawLines(_, _)
drawLines(st, lines) ==
  IF lines = <<>> THEN st
  ELSE drawLines(
         [r |-> [st.r EXCEPT !.y = @ + textLineHeightPt],
          d |-> [st.d EXCEPT !.texts =
                   Append(@, [page |-> st.r.currentPageNumber, y |-> st.r.y,
                              text |-> Head(lines)])]],
         Tail(lines))

\* renderSegmentImages: the layout of one image up to recordPlacement, for an
\* image whose dimensions are known and that is not skipped for its size
placeImage(r, d, segment, imgIdx, props) ==
  LET maxW == PageWidth - marginPt * 2
      maxH == PageHeight - marginPt * 2
      segLines == SEGMENT_LABEL_LINES[segment]
      textHeight == Len(segLines) * textLineHeightPt
      \* size: the size within the content area; labelledSize: the size
      \* on a fresh page below the label lines
      Layout(size, labelledSize) ==
        LET st0 == [r |-> r, d |-> d]
            first ==
              IF size[2] + textHeight > PageHeight - marginPt - r.y
                THEN [st |-> addPage(st0), size |-> labelledSize]
                ELSE [st |-> st0, size |-> size]
            firstDone ==
              LET st == drawLines(first.st, segLines)
              IN [st |-> [r |-> [st.r EXCEPT !.isFirstImageInSegment = FALSE],
                          d |-> st.d],
                  size |-> first.size]
            later ==
              IF r.y + size[2] > PageHeight - marginPt
                THEN [st |-> drawLines(addPage(st0),
                                       <<segLines[Len(segLines)] \o " (cont.)">>),
                      size |-> size]
                ELSE [st |-> st0, size |-> size]
            laid == IF r.isFirstImageInSegment THEN firstDone ELSE later
            imageAlias == r.aliasMap[segment][imgIdx + 1]
        IN [r |-> recordPlacement(laid.st.r, segment, imageAlias),
            d |-> laid.st.d, size |-> laid.size, alias |-> imageAlias]
  IN Layout(RenderSize(props, maxW, maxH),
            RenderSize(props, maxW, maxH - textHeight))

\* doc.addImage(compressed, 'PNG', margin, y, w, h, imageAlias, 'FAST')
docAddImage(d, compressed, page, y, size, alias) ==
  [d EXCEPT !.images =
     Append(@, [page |-> page, y |-> y, w |-> size[1], h |-> size[2],
                alias |-> alias, data |-> compressed])]

\* the loop position after (segment, imgIdx): "y += segmentGapPt" and a fresh
\* isFirstImageInSegment when the segment's last image has been handled
endOfIteration(r, segment, imgIdx) ==
  IF imgIdx + 1 >= Len(r.compressedImages[segment])
    THEN [r EXCEPT !.segment = segment + 1, !.imgIdx = 0,
                   !.y = @ + segmentGapPt, !.isFirstImageInSegment = TRUE]
    ELSE [r EXCEPT !.segment = segment, !.imgIdx = imgIdx + 1]

\* renderSegmentImages: one iteration of the inner loop
renderImage ==
  /\ save.pc = "render"
  /\ LET pos == LoopPos(save.compressedImages, save.segment, save.imgIdx)
         segment == pos[1]
         imgIdx == pos[2]
     IN /\ segment <= SEGMENT_COUNT
        /\ LET compressed == save.compressedImages[segment][imgIdx + 1]
               cached == getCachedImageDimensions(segment, imgIdx)
               \* doc.getImageProperties(compressed) when nothing is cached
               props == IF cached # Null THEN cached
                        ELSE measureImageDimensions(compressed)
               size == RenderSize(props, PageWidth - marginPt * 2,
                                  PageHeight - marginPt * 2)
               tooSmall == shouldSkipForSize(props, size[1], size[2],
                                             PageWidth - marginPt * 2,
                                             PageHeight - marginPt * 2)
           IN \E outcome \in Outcomes(compressed,
                                      IF tooSmall THEN {} ELSE {"renderError"}) :
                LET placed == placeImage(save, doc, segment, imgIdx, props)
                IN /\ faults' = Charge(outcome)
                   /\ imageDimensions' =
                        IF cached # Null THEN imageDimensions
                        ELSE storeImageDimensions(imageDimensions, segment,
                                                  imgIdx, props)
                   /\ CASE outcome = "ok" /\ tooSmall ->
                             /\ save' = endOfIteration(
                                  recordSkip(save, segment, imgIdx,
                                    getSkipReasonForSize(save.isFirstImageInSegment,
                                                         SEGMENT_LABEL_LINES[segment])),
                                  segment, imgIdx)
                             /\ UNCHANGED doc
                        [] outcome = "renderError" ->
                             \* addImage throws after recordPlacement ran
                             /\ save' = endOfIteration(
                                  recordSkip(placed.r, segment, imgIdx, "renderError"),
                                  segment, imgIdx)
                             /\ doc' = placed.d
                        [] OTHER ->
                             /\ doc' = docAddImage(placed.d, compressed,
                                         placed.r.currentPageNumber, placed.r.y,
                                         placed.size, placed.alias)
                             /\ save' = endOfIteration(
                                  [placed.r EXCEPT
                                     !.embeddedCount = @ + 1,
                                     !.y = @ + placed.size[2] + imageGapPt],
                                  segment, imgIdx)
  /\ UNCHANGED <<segmentImages, imageCompressionState, isModified, pdfFile,
                 load, ops, imageProcessingErrors, pending>>

\* generatePdfDocument after renderSegmentImages returned
embedMetadata ==
  /\ save.pc = "render"
  /\ LoopPos(save.compressedImages, save.segment, save.imgIdx)[1] > SEGMENT_COUNT
  /\ doc' = embedPayloadMetadata(doc, save.payload, "name")
  /\ save' = [save EXCEPT !.pc = "finalize"]
  /\ UNCHANGED <<segmentImages, imageCompressionState, isModified, pdfFile,
                 load, faults, ops,
                 imageProcessingErrors, imageDimensions, pending>>

\* finalize(true): doc.save(fileName); isModified = false
finalize ==
  /\ save.pc = "finalize"
  /\ pdfFile' = doc
  /\ isModified' = FALSE
  /\ save' = [save EXCEPT !.pc = "idle", !.saveBtnDisabled = FALSE]
  /\ UNCHANGED <<segmentImages, imageCompressionState, doc, load, faults, ops,
                 imageProcessingErrors, imageDimensions, pending>>

(* ------------------------------------------------------------------ *)
(* Metadata validation                                                *)
(* ------------------------------------------------------------------ *)
\* parsePprJson, imageManifest branch: every entry needs a non-empty string
\* alias and an integer segment in 1..SEGMENT_COUNT, else the field is dropped
coerceManifestEntry(entry) ==
  IF Has(entry, "alias") /\ Has(entry, "segment")
     /\ entry.segment \in Segments
    THEN [alias |-> entry.alias, segment |-> entry.segment]
    ELSE Null

\* parsePprJson, imagePlacements branch
placementEntryValid(entry) ==
  Has(entry, "alias") /\ Has(entry, "page") /\ Has(entry, "order")
  /\ entry.page >= 1 /\ entry.order >= 1

\* a parse that answers an empty save for text that is not a valid manifest
LenientParsePprJson(jsonString) ==
  [studentName |-> ""]

\* parsePprJson(jsonString): null unless JSON.parse gives a value of typeof
\* 'object' (an array is one) whose segments, when present, give a count >= 0
\* for every segment 1..SEGMENT_COUNT
parsePprJson(jsonString) ==
  IF ~(Has(jsonString, "text") /\ jsonString.text = "json") THEN Null
  ELSE IF jsonString.kind \notin {"object", "array"} THEN Null
  ELSE
    LET data == jsonString.value
        segmentsOk ==
          ~Has(data, "segments")
          \/ \A i \in Segments :
               i \in DOMAIN data.segments /\ data.segments[i] >= 0
        manifestOk ==
          Has(data, "imageManifest")
          /\ \A k \in DOMAIN data.imageManifest :
               coerceManifestEntry(data.imageManifest[k]) # Null
        placementsOk ==
          Has(data, "imagePlacements")
          /\ \A k \in DOMAIN data.imagePlacements :
               placementEntryValid(data.imagePlacements[k])
        base == [studentName |->
                   IF Has(data, "studentName") THEN data.studentName ELSE ""]
        withImages ==
          IF Has(data, "images")
            THEN [images |->
                    [i \in Segments |->
                       IF i \in DOMAIN data.images THEN data.images[i] ELSE <<>>]]
            ELSE <<>>
        withSegments ==
          IF Has(data, "segments")
            THEN [segments |-> [i \in Segments |-> data.segments[i]]]
            ELSE <<>>
        withManifest ==
          IF manifestOk
            THEN [imageManifest |->
                    [k \in DOMAIN data.imageManifest |->
                       coerceManifestEntry(data.imageManifest[k])]]
            ELSE <<>>
        withPlacements ==
          IF placementsOk
            THEN [imagePlacements |->
                    [k \in DOMAIN data.imagePlacements |->
                       [alias |-> data.imagePlacements[k].alias,
                        page |-> data.imagePlacements[k].page,
                        order |-> data.imagePlacements[k].order]]]
            ELSE <<>>
    IN IF ~segmentsOk THEN Null
       ELSE base @@ withImages @@ withSegments @@ withManifest @@ withPlacements

\* extractKeywordsPayload + readEmbeddedPprData: the decoded text, or null
readEmbeddedPprData(file) ==
  IF ~Has(file, "keywords") THEN Null
  ELSE IF file.keywords.prefix # PDF_METADATA_KEYWORD_PREFIX THEN Null
  ELSE decodeFromPdf(file.keywords.payload)

(* ------------------------------------------------------------------ *)
(* Reconstruction                                                     *)
(* ------------------------------------------------------------------ *)
NoIdx == -1   \* null

\* metadata.segments || {}
segmentsOf(metadata) ==
  IF Has(metadata, "segments") THEN metadata.segments ELSE <<>>

\* Number(segments[segment]) || 0
declaredCount(segments, segment) ==
  IF segment \in DOMAIN segments THEN segments[segment] ELSE 0

\* Object.values(segments).reduce(...)
expectedImageTotal(segments) == SumOver(segments, DOMAIN segments)

\* the synthesized order with the segments descending
RECURSIVE DescendingFallbackOrder(_, _, _)
DescendingFallbackOrder(segments, segment, segmentCount) ==
  IF segment > segmentCount THEN <<>>
  ELSE DescendingFallbackOrder(segments, segment + 1, segmentCount)
       \o [i \in 1..declaredCount(segments, segment) |->
             [alias |-> Alias(segment, i), segment |-> segment]]

\* the synthesized order: seg{N}-img{K}, N ascending, K = 1..count(N)
RECURSIVE fallbackOrder(_, _, _)
fallbackOrder(segments, segment, segmentCount) ==
  IF segment > segmentCount THEN <<>>
  ELSE [i \in 1..declaredCount(segments, segment) |->
          [alias |-> Alias(segment, i), segment |-> segment]]
       \o fallbackOrder(segments, segment + 1, segmentCount)

\* manifestOrder && manifestOrder.length ? manifestOrder : fallbackOrder
AnyLengthReconstructionOrder(metadata, segmentCount) ==
  IF Has(metadata, "imageManifest") /\ Len(metadata.imageManifest) > 0
    THEN metadata.imageManifest
    ELSE fallbackOrder(segmentsOf(metadata), 1, segmentCount)
reconstructionOrder(metadata, segmentCount) ==
  LET segments == segmentsOf(metadata)
      manifestOrder ==
        IF Has(metadata, "imageManifest")
           /\ Len(metadata.imageManifest) = expectedImageTotal(segments)
          THEN metadata.imageManifest ELSE <<>>
  IN IF Len(manifestOrder) > 0 THEN manifestOrder
     ELSE fallbackOrder(segments, 1, segmentCount)

\* Array.isArray(metadata.imagePlacements) && metadata.imagePlacements.length > 0
hasPlacementMetadata(metadata) ==
  Has(metadata, "imagePlacements") /\ Len(metadata.imagePlacements) > 0

\* aliasMeta.get(alias) after the imagePlacements were merged in (the last
\* entry of an alias wins): <<page, order>>, or <<0, 0>> without a target
targetInfo(metadata, alias) ==
  LET hits == IF hasPlacementMetadata(metadata)
                THEN {k \in DOMAIN metadata.imagePlacements :
                        metadata.imagePlacements[k].alias = alias}
                ELSE {}
  IN IF hits = {} THEN <<0, 0>>
     ELSE LET k == CHOOSE h \in hits : \A o \in hits : o <= h
          IN <<metadata.imagePlacements[k].page, metadata.imagePlacements[k].order>>

\* Number.isInteger(index) of an extraction record
hasIntegerIndex(rec) == Has(rec, "index")

\* buckets: `${page}:${order}` -> indices, in record order
RECURSIVE bucketOf(_, _)
bucketOf(extractedPlacements, key) ==
  IF extractedPlacements = <<>> THEN <<>>
  ELSE LET rec == Head(extractedPlacements)
           rest == bucketOf(Tail(extractedPlacements), key)
       IN IF hasIntegerIndex(rec) /\ <<rec.page, rec.order>> = key
            THEN <<rec.index>> \o rest ELSE rest

buildBuckets(metadata, extractedPlacements) ==
  IF ~hasPlacementMetadata(metadata) THEN <<>>
  ELSE LET keys == {<<extractedPlacements[k].page, extractedPlacements[k].order>> :
                      k \in {j \in DOMAIN extractedPlacements :
                               hasIntegerIndex(extractedPlacements[j])}}
       IN [key \in keys |-> bucketOf(extractedPlacements, key)]

\* claimFromBucket(bucketKey): shift the bucket, delete the index from allIndices
claimFromBucket(st, bucketKey) ==
  IF bucketKey \notin DOMAIN st.buckets \/ st.buckets[bucketKey] = <<>>
    THEN [st EXCEPT !.idx = NoIdx]
    ELSE [st EXCEPT !.idx = Head(st.buckets[bucketKey]),
                    !.buckets[bucketKey] = Tail(@),
                    !.allIndices = @ \ {Head(st.buckets[bucketKey])}]

\* claimNextUnused(): the first index left in allIndices (insertion order is
\* ascending), deleted from it
LastClaimNextUnused(st) ==
  IF st.allIndices = {} THEN [st EXCEPT !.idx = NoIdx]
  ELSE LET i == CHOOSE v \in st.allIndices : \A o \in st.allIndices : o <= v
       IN [st EXCEPT !.idx = i, !.allIndices = @ \ {i}]
claimNextUnused(st) ==
  IF st.allIndices = {} THEN [st EXCEPT !.idx = NoIdx]
  ELSE LET i == CHOOSE v \in st.allIndices : \A o \in st.allIndices : v <= o
       IN [st EXCEPT !.idx = i, !.allIndices = @ \ {i}]

\* the body of reconstructionOrder.forEach for one { alias, segment }
claimForAlias(st, metadata, extractedImages, entry) ==
  LET target == targetInfo(metadata, entry.alias)
      viaBucket == IF target[1] # 0 /\ target[2] # 0
                     THEN claimFromBucket(st, target)
                     ELSE [st EXCEPT !.idx = NoIdx]
      claimed == IF viaBucket.idx = NoIdx THEN claimNextUnused(viaBucket)
                 ELSE viaBucket
      via == IF viaBucket.idx # NoIdx THEN "bucket"
             ELSE IF claimed.idx # NoIdx THEN "fallback" ELSE "none"
      isStr == claimed.idx # NoIdx /\ claimed.idx + 1 \in DOMAIN extractedImages
               /\ IsString(extractedImages[claimed.idx + 1])
  IN [claimed EXCEPT
        !.usedFallbackAssignment = @ \/ via = "fallback",
        !.images[entry.segment] =
           IF isStr THEN Append(@, extractedImages[claimed.idx + 1]) ELSE @,
        !.claims = Append(@, [alias |-> entry.alias, segment |-> entry.segment,
                              idx |-> claimed.idx, via |-> via,
                              target |-> target,
                              unclaimed |-> st.allIndices])]

RECURSIVE claimAll(_, _, _, _)
claimAll(st, metadata, extractedImages, order) ==
  IF order = <<>> THEN st
  ELSE claimAll(claimForAlias(st, metadata, extractedImages, Head(order)),
                metadata, extractedImages, Tail(order))

\* the loop "for segment = 1..segmentCount": { segment, expected, received }
\* is pushed when received < expected
RECURSIVE AtMostExpectedMissingImagesFrom(_, _, _, _)
AtMostExpectedMissingImagesFrom(images, segments, segment, segmentCount) ==
  IF segment > segmentCount THEN <<>>
  ELSE (IF Len(images[segment]) <= declaredCount(segments, segment)
          THEN <<[segment |-> segment,
                  expected |-> declaredCount(segments, segment),
                  received |-> Len(images[segment])]>>
          ELSE <<>>)
       \o AtMostExpectedMissingImagesFrom(images, segments, segment + 1,
                                          segmentCount)
RECURSIVE missingImagesFrom(_, _, _, _)
missingImagesFrom(images, segments, segment, segmentCount) ==
  IF segment > segmentCount THEN <<>>
  ELSE (IF Len(images[segment]) < declaredCount(segments, segment)
          THEN <<[segment |-> segment,
                  expected |-> declaredCount(segments, segment),
                  received |-> Len(images[segment])]>>
          ELSE <<>>)
       \o missingImagesFrom(images, segments, segment + 1, segmentCount)

\* the notices, in the order they are pushed
LeftoverSilentBuildNotices(missingImages, fallbackUsed, skippedImages, leftoverImagesCount) ==
  (IF Len(missingImages) > 0 THEN <<"missing">> ELSE <<>>)
  \o (IF fallbackUsed THEN <<"fallback">> ELSE <<>>)
  \o (IF Len(skippedImages) > 0 THEN <<"skipped">> ELSE <<>>)
buildNotices(missingImages, fallbackUsed, skippedImages, leftoverImagesCount) ==
  (IF Len(missingImages) > 0 THEN <<"missing">> ELSE <<>>)
  \o (IF fallbackUsed THEN <<"fallback">> ELSE <<>>)
  \o (IF Len(skippedImages) > 0 THEN <<"skipped">> ELSE <<>>)
  \o (IF leftoverImagesCount > 0 THEN <<"leftover">> ELSE <<>>)

\* reconstructPprDataFromPdf({ metadata, extractedImages, extractedPlacements,
\*                             skippedImages, segmentCount })
\* (`claims` and `usedFallbackAssignment` are the function's locals, kept for
\* the properties; the rest is the returned object)
reconstructPprDataFromPdf(params) ==
  LET metadata == params.metadata
      extractedImages == params.extractedImages
      segments == segmentsOf(metadata)
      order == reconstructionOrder(metadata, params.segmentCount)
      st0 == [allIndices |-> {i - 1 : i \in DOMAIN extractedImages},
              buckets |-> buildBuckets(metadata, params.extractedPlacements),
              images |-> [s \in 1..params.segmentCount |-> <<>>],
              usedFallbackAssignment |-> FALSE,
              claims |-> <<>>, idx |-> NoIdx]
      st == claimAll(st0, metadata, extractedImages, order)
      missingSegments ==
        {s \in 1..params.segmentCount :
           Len(st.images[s]) < declaredCount(segments, s)}
      missingImages == missingImagesFrom(st.images, segments, 1,
                                         params.segmentCount)
      leftoverImagesCount == Cardinality(st.allIndices)
      notices == buildNotices(missingImages,
                              hasPlacementMetadata(metadata)
                                /\ st.usedFallbackAssignment,
                              params.skippedImages, leftoverImagesCount)
  IN [workspaceData |->
        [studentName |-> metadata.studentName, images |-> st.images],
      notices |-> notices,
      missingImages |-> missingImages,
      segmentsWithMissingImages |-> missingSegments,
      leftoverImagesCount |-> leftoverImagesCount,
      reconstructionOrder |-> order,
      usedFallbackAssignment |-> st.usedFallbackAssignment,
      claims |-> st.claims]

(* ------------------------------------------------------------------ *)
(* Document Reader                                                    *)
(* ------------------------------------------------------------------ *)
\* page.getOperatorList(): the image paint operations of a page, in order
RECURSIVE operatorList(_, _)
operatorList(images, pageNum) ==
  IF images = <<>> THEN <<>>
  ELSE (IF Head(images).page = pageNum THEN <<Head(images)>> ELSE <<>>)
       \o operatorList(Tail(images), pageNum)

LastPageSkippedPageOperators(file) ==
  [p \in 1..file.pages |->
     IF p = file.pages THEN <<>> ELSE operatorList(file.images, p)]
pageOperators(file) == [p \in 1..file.pages |-> operatorList(file.images, p)]

\* the canvas redraw of an embedded image: imgCanvas.toDataURL('image/png')
toDataURL(imgData) ==
  [px |-> imgData.px, width |-> imgData.width, height |-> imgData.height,
   fmt |-> "png", fragile |-> imgData.fragile]

\* ppr-module.js loadPprPdf: the extraction index of a record is its position
withPositionalIndex(extractedPlacements) ==
  [k \in DOMAIN extractedPlacements |->
     [page |-> extractedPlacements[k].page,
      order |-> extractedPlacements[k].order, index |-> k - 1]]

\* the measurements applyLoadedData starts: primeImageDimensions for every
\* image of every segment from `segment` on, in the order of the loops
RECURSIVE PrimeAllFrom(_, _)
PrimeAllFrom(images, segment) ==
  IF segment > SEGMENT_COUNT THEN <<>>
  ELSE [i \in 1..Len(images[segment]) |->
          primeImageDimensions(segment, i - 1, images[segment][i])]
       \o PrimeAllFrom(images, segment + 1)

\* a load that leaves out the last image of segment 1
DropLastApplyLoadedData(data) ==
  /\ segmentImages' =
       [s \in Segments |->
          IF s = 1 /\ Len(data.images[s]) > 0
            THEN SubSeq(data.images[s], 1, Len(data.images[s]) - 1)
            ELSE data.images[s]]
  /\ imageCompressionState' =
       [s \in Segments |-> [i \in 1..Len(segmentImages'[s]) |-> TRUE]]
  /\ imageProcessingErrors' =
       [s \in Segments |-> [i \in 1..Len(segmentImages'[s]) |-> FALSE]]
  /\ imageDimensions' =
       [s \in Segments |-> [i \in 1..Len(segmentImages'[s]) |-> Null]]
  /\ pending' = pending \o PrimeAllFrom(segmentImages', 1)
  /\ isModified' = FALSE

\* a load that keeps the error flags and the cached dimensions it finds
StaleMetadataApplyLoadedData(data) ==
  /\ segmentImages' = [s \in Segments |-> data.images[s]]
  /\ imageCompressionState' =
       [s \in Segments |-> [i \in 1..Len(data.images[s]) |-> TRUE]]
  /\ UNCHANGED <<imageProcessingErrors, imageDimensions>>
  /\ pending' = pending \o PrimeAllFrom(data.images, 1)
  /\ isModified' = FALSE

\* applyLoadedData(data)
applyLoadedData(data) ==
  /\ segmentImages' = [s \in Segments |-> data.images[s]]
  /\ imageCompressionState' =
       [s \in Segments |-> [i \in 1..Len(data.images[s]) |-> TRUE]]
  /\ imageProcessingErrors' =
       [s \in Segments |-> [i \in 1..Len(data.images[s]) |-> FALSE]]
  /\ imageDimensions' =
       [s \in Segments |-> [i \in 1..Len(data.images[s]) |-> Null]]
  /\ pending' = pending \o PrimeAllFrom(data.images, 1)
  /\ isModified' = FALSE

\* files the user can pick that are not PPR saves: no keywords, a payload
\* outside the Base64 alphabet, a payload that is not JSON, a manifest whose
\* segment count is negative
UnreadableFiles ==
  {[pages |-> 1, texts |-> <<>>, images |-> <<>>],
   [pages |-> 1, texts |-> <<>>, images |-> <<>>, author |-> "name",
    keywords |-> [prefix |-> PDF_METADATA_KEYWORD_PREFIX,
                  payload |-> [alphabet |-> "other", bytes |-> <<>>]]],
   [pages |-> 1, texts |-> <<>>, images |-> <<>>, author |-> "name",
    keywords |-> [prefix |-> PDF_METADATA_KEYWORD_PREFIX,
                  payload |-> encodeForPdf([text |-> "plain"])]],
   [pages |-> 1, texts |-> <<>>, images |-> <<>>, author |-> "name",
    keywords |-> [prefix |-> PDF_METADATA_KEYWORD_PREFIX,
                  payload |-> encodeForPdf(JsonNumberText)]],
   [pages |-> 1, texts |-> <<>>, images |-> <<>>, author |-> "name",
    keywords |-> [prefix |-> PDF_METADATA_KEYWORD_PREFIX,
                  payload |-> encodeForPdf(JsonStringify(
                     [studentName |-> "name",
                      segments |-> [s \in Segments |-> 0 - 1]]))]],
   [pages |-> 1, texts |-> <<>>, images |-> <<>>, author |-> "name",
    keywords |-> [prefix |-> PDF_METADATA_KEYWORD_PREFIX,
                  payload |-> encodeForPdf(JsonStringify(
                     [studentName |-> "name",
                      images |-> [s \in 1..(SEGMENT_COUNT - 1) |-> <<>>],
                      segments |-> [s \in 1..(SEGMENT_COUNT - 1) |-> 0]]))]]}

\* input.onchange: the file the user picks, the file written before when
\* there is one and another PDF otherwise
ArrayPayloadFile ==
  [pages |-> 1, texts |-> <<>>, images |-> <<>>, author |-> "name",
   keywords |-> [prefix |-> PDF_METADATA_KEYWORD_PREFIX,
                 payload |-> encodeForPdf(JsonArrayText)]]

ChosenFiles ==
  IF pdfFile = NoFile
    THEN UnreadableFiles \cup {ArrayPayloadFile}
    ELSE {pdfFile}

\* input.onchange with a PDF file chosen: loadBtn.disabled = true, then
\* await import('./pdf-loader.js') and await createPdfLoader(), then
\* reader.onload starts. The imports are outside every try: when one rejects
\* (the first time the loader is asked for, the modules are cached once they
\* have resolved) the handler ends there. ops counts the saves and the loads
\* that get past the read of the manifest.
startLoad(module) ==
  /\ Idle
  /\ ~LoadDisabled
  /\ Quiet
  /\ ops < MaxOps
  /\ \E file \in ChosenFiles :
     \E loader \in {"resolves"} \cup
                     (IF load = LoadIdle /\ ops = 0 /\ faults < MaxFaults
                        THEN {"rejects"} ELSE {}) :
       IF loader = "rejects"
         THEN /\ load' = [pc |-> "idle", module |-> module,
                          outcome |-> "loaderFailed",
                          loadBtnDisabled |-> TRUE]
              /\ faults' = faults + 1
              /\ ops' = ops
         ELSE /\ load' = [pc |-> "read", module |-> module, file |-> file,
                          before |-> WorkspaceStore,
                          loadBtnDisabled |-> TRUE]
              /\ faults' = faults
              /\ ops' = IF file \in UnreadableFiles THEN ops ELSE ops + 1
  /\ UNCHANGED <<segmentImages, imageCompressionState, isModified, save, doc,
                 pdfFile,
                 imageProcessingErrors, imageDimensions, pending>>

\* loadPprPdf of ppr-files.js
loadPprPdf == startLoad("ppr-files")

\* loadPprPdf of ppr-module.js
loadPprPdfModule == startLoad("ppr-module")

\* readEmbeddedPprData + parsePprJson; extractImagesFromPdf starts. Without
\* embedded data the button is enabled before the return, with invalid data
\* the return runs the finally block, which enables it
readManifest ==
  /\ load.pc = "read"
  /\ LET embeddedData == readEmbeddedPprData(load.file)
         data == IF embeddedData = Null THEN Null ELSE parsePprJson(embeddedData)
     IN load' =
          IF embeddedData = Null
            THEN [pc |-> "idle", outcome |-> "notPpr",
                  loadBtnDisabled |-> FALSE]
          ELSE IF data = Null
            THEN [pc |-> "idle", outcome |-> "invalid",
                  loadBtnDisabled |-> FALSE]
          ELSE [pc |-> "extract", module |-> load.module, file |-> load.file,
                loadBtnDisabled |-> load.loadBtnDisabled,
                data |-> data, pageNum |-> 1, i |-> 0,
                images |-> <<>>, imageNames |-> <<>>, imagePlacements |-> <<>>,
                pageImageCounts |-> [p \in 1..load.file.pages |-> 0],
                skippedImages |-> <<>>,
                renderedPage |-> 0, waits |-> 0, renders |-> 0]
  /\ UNCHANGED <<segmentImages, imageCompressionState, isModified, save, doc,
                 pdfFile, faults, ops,
                 imageProcessingErrors, imageDimensions, pending>>

\* the record of a successful extraction on a page
recordExtraction(l, imageName, pageNum) ==
  LET orderOnPage == l.pageImageCounts[pageNum] + 1
  IN [l EXCEPT !.pageImageCounts[pageNum] = orderOnPage,
               !.imagePlacements =
                  Append(@, [name |-> imageName, page |-> pageNum,
                             order |-> orderOnPage])]

\* when page.objs delivers the object of an image: at once, only once the
\* page has been rendered, or not within any wait
Readiness(image) ==
  {"ready"}
    \cup (IF image.fragile THEN {"afterRender"} ELSE {})
    \cup (IF image.fragile /\ faults < MaxFaults THEN {"never"} ELSE {})

\* waitForPdfImageObject resolves before the timeout
objectReady(readiness, pageRendered) ==
  readiness = "ready" \/ (readiness = "afterRender" /\ pageRendered)

\* the while loop of loadPdfImageWithRenderRetry from one wait on; waits and
\* renders count the calls of waitForPdfImageObject and the page renders
RECURSIVE retryLoop(_, _, _, _, _, _)
retryLoop(readiness, allowRenderRetry, attemptedRender, pageRendered, waits, renders) ==
  IF objectReady(readiness, pageRendered)
    THEN [returned |-> TRUE, waits |-> waits + 1, renders |-> renders,
          pageRendered |-> pageRendered]
  ELSE IF allowRenderRetry /\ ~attemptedRender
    THEN \* renderPageIfNeeded(); attemptedRender = true
         retryLoop(readiness, allowRenderRetry, TRUE, TRUE, waits + 1,
                   IF pageRendered THEN renders ELSE renders + 1)
    ELSE [returned |-> FALSE, waits |-> waits + 1, renders |-> renders,
          pageRendered |-> pageRendered,
          message |-> IF attemptedRender
                        THEN "Timed out waiting for image data after rendering"
                        ELSE "Timed out waiting for image data"]

\* a loader that renders and waits once more than it should
ThreeWaitsLoadPdfImageWithRenderRetry(readiness, allowRenderRetry, pageRendered) ==
  LET first == retryLoop(readiness, allowRenderRetry, FALSE, pageRendered, 0, 0)
  IN IF first.returned THEN first
     ELSE [first EXCEPT !.waits = @ + 1, !.renders = @ + 1]

\* loadPdfImageWithRenderRetry(page, imageName, renderPageIfNeeded,
\* {allowRenderRetry})
loadPdfImageWithRenderRetry(readiness, allowRenderRetry, pageRendered) ==
  retryLoop(readiness, allowRenderRetry, FALSE, pageRendered, 0, 0)

\* the redraw of an image through a canvas (createElement, getContext,
\* putImageData or drawImage, toDataURL): it returns the data URL or throws
Redraws(image) ==
  {"ok"} \cup (IF image.fragile /\ faults < MaxFaults THEN {"throws"} ELSE {})

\* extractImagesFromPdf: one image paint operation
extractImage ==
  /\ load.pc = "extract"
  /\ LET pos == LoopPosN(pageOperators(load.file), load.file.pages,
                         load.pageNum, load.i)
         pageNum == pos[1]
         i == pos[2]
     IN /\ pageNum <= load.file.pages
        /\ LET op == pageOperators(load.file)[pageNum][i + 1]
               imageName == [page |-> pageNum, op |-> i]
               \* let pageRendered = false at the start of every page
               pageRendered == load.renderedPage = pageNum
           IN \E readiness \in Readiness(op.data) :
              \E redraw \in (IF readiness = "never" THEN {"ok"}
                             ELSE Redraws(op.data)) :
                LET imgData == loadPdfImageWithRenderRetry(readiness,
                                 ~pageRendered, pageRendered)
                    at == [load EXCEPT
                             !.pageNum = pageNum, !.i = i + 1,
                             !.waits = imgData.waits,
                             !.renders = imgData.renders,
                             !.renderedPage =
                                IF imgData.pageRendered THEN pageNum ELSE @]
                IN /\ faults' = IF readiness = "never" \/ redraw = "throws"
                                  THEN faults + 1 ELSE faults
                   /\ load' =
                        IF ~imgData.returned
                          THEN \* catch (timeoutError): skippedImages.push; continue
                               [at EXCEPT !.skippedImages =
                                  Append(@, [page |-> pageNum,
                                             imageName |-> imageName,
                                             reason |-> imgData.message])]
                        ELSE IF redraw = "throws"
                          THEN \* catch (e): console.warn('Failed to extract image:')
                               at
                          ELSE recordExtraction(
                                 [at EXCEPT
                                    !.images = Append(@, toDataURL(op.data)),
                                    !.imageNames = Append(@, imageName)],
                                 imageName, pageNum)
  /\ UNCHANGED <<segmentImages, imageCompressionState, isModified, save, doc,
                 pdfFile, ops,
                 imageProcessingErrors, imageDimensions, pending>>

\* showToast(notices.join(' '), isError) or showToast('Work loaded from PDF!')
loadToast(result, skippedImages) ==
  IF Len(result.notices) > 0
    THEN [text |-> result.notices,
          isError |-> Len(result.missingImages) > 0 \/ Len(skippedImages) > 0]
    ELSE [text |-> <<"Work loaded from PDF!">>, isError |-> FALSE]

\* loadPprPdf after extraction: reconstruction, applyLoadedData, the toast
reconstruct ==
  /\ load.pc = "extract"
  /\ LoopPosN(pageOperators(load.file), load.file.pages,
              load.pageNum, load.i)[1] > load.file.pages
  /\ LET params ==
           [metadata |-> load.data,
            extractedImages |-> load.images,
            extractedPlacements |->
              IF load.module = "ppr-module"
                THEN withPositionalIndex(load.imagePlacements)
                ELSE load.imagePlacements,
            skippedImages |-> load.skippedImages,
            segmentCount |-> SEGMENT_COUNT]
         result == reconstructPprDataFromPdf(params)
     IN /\ applyLoadedData(result.workspaceData)
        /\ load' = [pc |-> "idle", module |-> load.module, outcome |-> "loaded",
                    file |-> load.file, params |-> params, result |-> result,
                    toast |-> loadToast(result, params.skippedImages),
                    \* finally { loadBtn.disabled = false }
                    loadBtnDisabled |-> FALSE]
  /\ UNCHANGED <<save, doc, pdfFile, faults, ops>>

(* ------------------------------------------------------------------ *)
(* Specification: edit, save, load the saved file                     *)
(* ------------------------------------------------------------------ *)
Init ==
  /\ segmentImages = createSegmentMap
  /\ imageCompressionState = createSegmentMap
  /\ imageProcessingErrors = createSegmentMap
  /\ imageDimensions = createSegmentMap
  /\ pending = <<>>
  /\ isModified = FALSE
  /\ save = SaveIdle
  /\ doc = NewDoc
  /\ pdfFile = NoFile
  /\ load = LoadIdle
  /\ faults = 0
  /\ ops = 0

Next ==
  \/ selectFiles
  \/ readerOnload(1)
  \/ measureDone(1)
  \/ savePprPdf
  \/ compressImage
  \/ compressDone
  \/ renderImage
  \/ embedMetadata
  \/ finalize
  \/ loadPprPdf
  \/ loadPprPdfModule
  \/ readManifest
  \/ extractImage
  \/ reconstruct

Spec == Init /\ [][Next]_vars

(* ------------------------------------------------------------------ *)
(* Specification: load a PPR file this build did not write            *)
(* ------------------------------------------------------------------ *)
\* the page and the order on the page of the k-th image of a file whose
\* images after the first `firstPage` ones are on page 2
SlotOf(k, firstPage) ==
  IF k <= firstPage THEN <<1, k>> ELSE <<2, k - firstPage>>

ForeignImage(k, firstPage) ==
  [page |-> SlotOf(k, firstPage)[1], alias |-> k,
   data |-> [px |-> k, width |-> 400, height |-> 200, fmt |-> "png",
             fragile |-> k = 1]]

\* a manifest as the Writer of another build embeds it
ForeignManifests(counts, firstPage) ==
  LET canonical == fallbackOrder(counts, 1, SEGMENT_COUNT)
      n == Len(canonical)
      reversed == [j \in 1..n |-> canonical[n + 1 - j]]
      placementLists ==
        {[j \in 1..Cardinality(covered) |->
            LET a == CHOOSE x \in covered :
                       Cardinality({y \in covered : y < x}) = j - 1
            IN [alias |-> canonical[a].alias,
                page |-> SlotOf(IF flip THEN n + 1 - a ELSE a, firstPage)[1],
                order |-> SlotOf(IF flip THEN n + 1 - a ELSE a, firstPage)[2]]] :
           covered \in SUBSET (1..n), flip \in BOOLEAN}
      base == [studentName |-> "name", segments |-> counts, timestamp |-> "time"]
      manifests ==
        {<<>>, [imageManifest |-> canonical], [imageManifest |-> reversed]}
        \cup (IF n > 0 THEN {[imageManifest |-> Tail(canonical)]} ELSE {})
  IN {base @@ m @@ (IF pl = <<>> THEN <<>> ELSE [imagePlacements |-> pl]) :
        m \in manifests, pl \in placementLists}

\* the declared counts: segment 1 up to the bound, segment 2 none or one
ForeignCounts ==
  {[s \in Segments |-> IF s = 1 THEN c[1] ELSE IF s = 2 THEN c[2] ELSE 0] :
     c \in (0..MaxForeignCount) \X (0..1)}

ForeignFiles ==
  UNION {
  {[pages |-> IF firstPage < m THEN 2 ELSE 1,
    texts |-> <<>>,
    images |-> [k \in 1..m |-> ForeignImage(k, firstPage)],
    author |-> "name",
    keywords |-> [prefix |-> PDF_METADATA_KEYWORD_PREFIX,
                  payload |-> encodeForPdf(JsonStringify(payload))]] :
     m \in 0..MaxForeignImages,
     payload \in UNION {ForeignManifests(c, firstPage) : c \in ForeignCounts}} :
  firstPage \in {1, MaxForeignImages}}

InitRecon ==
  /\ segmentImages = createSegmentMap
  /\ imageCompressionState = createSegmentMap
  /\ imageProcessingErrors = createSegmentMap
  /\ imageDimensions = createSegmentMap
  /\ pending = <<>>
  /\ isModified = FALSE
  /\ save = SaveIdle
  /\ doc = NewDoc
  /\ pdfFile \in ForeignFiles
  /\ load = LoadIdle
  /\ faults = 0
  /\ ops = 0

NextRecon ==
  \/ loadPprPdf
  \/ loadPprPdfModule
  \/ readManifest
  \/ extractImage
  \/ reconstruct
  \/ measureDone(1)

SpecRecon == InitRecon /\ [][NextRecon]_vars

\* the same loads under the browser's scheduling: a FileReader that has been
\* started delivers its load event, and an awaited promise that settles resumes
\* the handler, so every step of a load that can run does run
SpecReconLive ==
  /\ InitRecon
  /\ [][NextRecon]_vars
  /\ WF_vars(readManifest)
  /\ WF_vars(extractImage)
  /\ WF_vars(reconstruct)

(* ------------------------------------------------------------------ *)
(* Specification: load a PPR file whose imageManifest has the declared  *)
(* number of entries in all but gives every alias to segment 1          *)
(* ------------------------------------------------------------------ *)
UnevenFiles ==
  LET manifestOf(file) == decodeFromPdf(file.keywords.payload).value
      uneven(m) ==
        [m EXCEPT !.imageManifest =
           [j \in DOMAIN @ |-> [alias |-> @[j].alias, segment |-> 1]]]
  IN {[file EXCEPT !.keywords.payload =
         encodeForPdf(JsonStringify(uneven(manifestOf(file))))] :
        file \in {f \in ForeignFiles :
                    /\ Has(manifestOf(f), "imageManifest")
                    /\ \E j \in DOMAIN manifestOf(f).imageManifest :
                         manifestOf(f).imageManifest[j].segment # 1}}

InitUneven ==
  /\ segmentImages = createSegmentMap
  /\ imageCompressionState = createSegmentMap
  /\ imageProcessingErrors = createSegmentMap
  /\ imageDimensions = createSegmentMap
  /\ pending = <<>>
  /\ isModified = FALSE
  /\ save = SaveIdle
  /\ doc = NewDoc
  /\ pdfFile \in UnevenFiles
  /\ load = LoadIdle
  /\ faults = 0
  /\ ops = 0

SpecUneven == InitUneven /\ [][NextRecon]_vars

(* ------------------------------------------------------------------ *)
(* Specification: load a saved file, save again                        *)
(* ------------------------------------------------------------------ *)
\* the files whose manifest is as a save writes it: the imageManifest in
\* segment order, no imagePlacements
SavedFiles ==
  {file \in ForeignFiles :
     LET data == decodeFromPdf(file.keywords.payload).value
     IN /\ Has(data, "imageManifest") /\ ~Has(data, "imagePlacements")
        /\ data.imageManifest = ManifestFrom(
             [s \in Segments |-> [i \in 1..data.segments[s] |-> i]], 1)}

InitResave ==
  /\ segmentImages = createSegmentMap
  /\ imageCompressionState = createSegmentMap
  /\ imageProcessingErrors = createSegmentMap
  /\ imageDimensions = createSegmentMap
  /\ pending = <<>>
  /\ isModified = FALSE
  /\ save = SaveIdle
  /\ doc = NewDoc
  /\ pdfFile \in SavedFiles
  /\ load = LoadIdle
  /\ faults = 0
  /\ ops = 0

NextResave ==
  \/ loadPprPdf
  \/ loadPprPdfModule
  \/ readManifest
  \/ extractImage
  \/ reconstruct
  \/ measureDone(1)
  \/ savePprPdf
  \/ compressImage
  \/ compressDone
  \/ renderImage
  \/ embedMetadata
  \/ finalize

SpecResave == InitResave /\ [][NextResave]_vars

(* ------------------------------------------------------------------ *)
(* Specification: load a saved file, add images, save.  The workspace  *)
(* then holds trusted images from the file and untrusted new ones.     *)
(* ------------------------------------------------------------------ *)
\* the images of the workspace that are not trusted
Untrusted ==
  SumOver([s \in Segments |->
             Cardinality({i \in 1..Len(imageCompressionState[s]) :
                            ~imageCompressionState[s][i]})], Segments)

\* after a load the upload area is clicked and one file is chosen
selectMoreFiles ==
  /\ Idle
  /\ Quiet
  /\ Loaded
  /\ ~Has(save, "payload")
  /\ Untrusted < MaxAdded
  /\ \E segmentNum \in Segments :
       /\ Len(segmentImages[segmentNum]) < MAX_IMAGES_PER_SEGMENT
       /\ handleFiles(<<Catalogue(segmentNum,
                                  Len(segmentImages[segmentNum]) + 1)>>,
                      segmentNum)
  /\ UNCHANGED ops

InitAmend == InitResave

NextAmend ==
  \/ NextResave
  \/ selectMoreFiles
  \/ readerOnload(1)

SpecAmend == InitAmend /\ [][NextAmend]_vars

(* ------------------------------------------------------------------ *)
(* Specification: an editing session.  Files are dropped on segments    *)
(* and images are removed while file reads and measurements of earlier  *)
(* edits are still in flight; the callbacks complete in any order.      *)
(* `ops` counts the edits; the file of edit n on a segment is           *)
(* Catalogue(segment, n), so every dropped file is a different image.   *)
(* ------------------------------------------------------------------ *)
\* drop on the upload area: refused when the segment is full now, else
\* handleFiles(droppedFiles, segmentNum) with one dropped file
dropFiles ==
  /\ ops < MaxEdits
  /\ ops' = ops + 1
  /\ \E segmentNum \in 1..MaxEditSegment :
       /\ ~(Len(segmentImages[segmentNum]) >= MAX_IMAGES_PER_SEGMENT)
       /\ handleFiles(<<Catalogue(segmentNum, ops + 1)>>, segmentNum)

\* handleSegmentImagesClick: the remove button of a displayed image
handleSegmentImagesClick ==
  /\ ops < MaxEdits
  /\ ops' = ops + 1
  /\ \E segmentNum \in 1..MaxEditSegment :
       \E index \in 0..(Len(segmentImages[segmentNum]) - 1) :
         removeImage(index, segmentNum)
  /\ UNCHANGED <<save, doc, pdfFile, load, faults, pending>>

InitEdit == Init

NextEdit ==
  \/ dropFiles
  \/ handleSegmentImagesClick
  \/ \E i \in 1..Len(pending) : readerOnload(i)
  \/ \E i \in 1..Len(pending) : measureDone(i)

SpecEdit == InitEdit /\ [][NextEdit]_vars

(* ------------------------------------------------------------------ *)
(* Specification: compressDataUrl on images of many sizes              *)
(* ------------------------------------------------------------------ *)
\* widths and heights of the images given to compressDataUrl
Dimensions ==
  {1, 4, 400, 537, 1074, 1200, 1600, 1601, 1790, 2156, 2400, 3200, 4900}

InitCompress ==
  /\ segmentImages = createSegmentMap
  /\ imageCompressionState = createSegmentMap
  /\ imageProcessingErrors = createSegmentMap
  /\ imageDimensions = createSegmentMap
  /\ pending = <<>>
  /\ isModified = FALSE
  /\ doc = NewDoc
  /\ pdfFile = NoFile
  /\ load = LoadIdle
  /\ faults = 0
  /\ ops = 0
  /\ \E w \in Dimensions : \E h \in Dimensions :
       save = [pc |-> "compressing",
               dataUrl |-> [px |-> 1, width |-> w, height |-> h,
                            fmt |-> "raw", fragile |-> FALSE]]

\* img.onload in compressDataUrl: resolve(canvas.toDataURL(outputType))
compressOnload ==
  /\ save.pc = "compressing"
  /\ save' = [pc |-> "idle", dataUrl |-> save.dataUrl,
              result |-> compressDataUrl(save.dataUrl)]
  /\ UNCHANGED <<segmentImages, imageCompressionState, isModified, doc,
                 pdfFile, load, faults, ops, imageProcessingErrors,
                 imageDimensions, pending>>

NextCompress == compressOnload

SpecCompress == InitCompress /\ [][NextCompress]_vars

(* ------------------------------------------------------------------ *)
(* Specification: the render scale of renderSegmentImages on one image  *)
(* ------------------------------------------------------------------ *)
\* widths and heights of the images given to renderSegmentImages
RenderDimensions == {4, 133, 178, 400, 532, 712, 1000, 1140, 1221, 1600}

InitScale ==
  /\ segmentImages = createSegmentMap
  /\ imageCompressionState = createSegmentMap
  /\ imageProcessingErrors = createSegmentMap
  /\ imageDimensions = createSegmentMap
  /\ pending = <<>>
  /\ isModified = FALSE
  /\ doc = NewDoc
  /\ pdfFile = NoFile
  /\ load = LoadIdle
  /\ faults = 0
  /\ ops = 0
  /\ \E w \in RenderDimensions : \E h \in RenderDimensions :
       save = [pc |-> "scale", props |-> [width |-> w, height |-> h]]

\* renderSegmentImages: scale, w, h and the test of shouldSkipForSize
scaleImage ==
  /\ save.pc = "scale"
  /\ LET maxW == PageWidth - marginPt * 2
         maxH == PageHeight - marginPt * 2
         size == RenderedSize(save.props, maxW, maxH)
     IN save' = [pc |-> IF shouldSkipForSize(save.props, size[1].floor,
                                             size[2].floor, maxW, maxH)
                          THEN "skipped" ELSE "scaled",
                 props |-> save.props,
                 scale |-> renderScale(save.props, maxW, maxH),
                 w |-> size[1], h |-> size[2],
                 maxW |-> maxW, maxH |-> maxH]
  /\ UNCHANGED <<segmentImages, imageCompressionState, isModified, doc,
                 pdfFile, load, faults, ops, imageProcessingErrors,
                 imageDimensions, pending>>

\* renderSegmentImages, first image of a segment that does not fit under its
\* label on the page at y: the scale against maxImageHeight on a new page
rescaleForLabels ==
  /\ save.pc = "scaled"
  /\ \E segment \in Segments :
       \E y \in {contentStartYPt, (PageHeight - marginPt) \div 2,
                 PageHeight - marginPt} :
         LET textHeight == Len(SEGMENT_LABEL_LINES[segment]) * textLineHeightPt
             spaceAvailable == PageHeight - marginPt - y
             maxImageHeight == PageHeight - marginPt * 2 - textHeight
             size == RenderedSize(save.props, save.maxW, maxImageHeight)
         IN /\ save.h.floor + textHeight > spaceAvailable
               \/ (save.h.floor + textHeight = spaceAvailable
                     /\ save.h.excess # "none")
            /\ save' = [save EXCEPT
                          !.pc = "rescaled",
                          !.scale = renderScale(save.props, save.maxW,
                                                maxImageHeight),
                          !.w = size[1], !.h = size[2],
                          !.maxH = maxImageHeight]
  /\ UNCHANGED <<segmentImages, imageCompressionState, isModified, doc,
                 pdfFile, load, faults, ops, imageProcessingErrors,
                 imageDimensions, pending>>

NextScale ==
  \/ scaleImage
  \/ rescaleForLabels

SpecScale == InitScale /\ [][NextScale]_vars

(* ------------------------------------------------------------------ *)
(* Specification: save a workspace of photographs of several sizes      *)
(* ------------------------------------------------------------------ *)
\* the files the user can pick: a screenshot, a page in portrait and a tall
\* photograph that fills a page when scaled
Photos ==
  {[px |-> 101, width |-> 400, height |-> 300, fmt |-> "raw", fragile |-> FALSE],
   [px |-> 102, width |-> 400, height |-> 600, fmt |-> "raw", fragile |-> FALSE],
   [px |-> 103, width |-> 500, height |-> 1000, fmt |-> "raw", fragile |-> FALSE]}

\* the upload area is clicked and one photograph is chosen in the dialog
selectPhotos ==
  /\ Idle
  /\ Quiet
  /\ ops = 0
  /\ \E segmentNum \in 1..MaxLayoutSegment : \E photo \in Photos :
       /\ Len(segmentImages[segmentNum]) < MaxLayoutImages
       /\ handleFiles(<<photo>>, segmentNum)
  /\ UNCHANGED ops

NextLayout ==
  \/ selectPhotos
  \/ readerOnload(1)
  \/ measureDone(1)
  \/ savePprPdf
  \/ compressImage
  \/ compressDone
  \/ renderImage
  \/ embedMetadata
  \/ finalize

SpecLayout == Init /\ [][NextLayout]_vars

(* ------------------------------------------------------------------ *)
(* Specification: the workspace is edited while a save is in progress.  *)
(* savePprPdf disables the save button only: files can be dropped and   *)
(* images removed at every suspension point of the save.  The workspace *)
(* holds two images in each of the segments 1..MaxEditSegment at first. *)
(* ------------------------------------------------------------------ *)
InitBusy ==
  /\ segmentImages =
       [s \in Segments |->
          IF s <= MaxEditSegment
            THEN <<Catalogue(s, MaxEdits + 1), Catalogue(s, MaxEdits + 2)>>
            ELSE <<>>]
  /\ imageCompressionState =
       [s \in Segments |-> [i \in 1..Len(segmentImages[s]) |-> FALSE]]
  /\ imageProcessingErrors =
       [s \in Segments |-> [i \in 1..Len(segmentImages[s]) |-> FALSE]]
  /\ imageDimensions =
       [s \in Segments |->
          [i \in 1..Len(segmentImages[s]) |->
             measureImageDimensions(segmentImages[s][i])]]
  /\ pending = <<>>
  /\ isModified = TRUE
  /\ save = SaveIdle
  /\ doc = NewDoc
  /\ pdfFile = NoFile
  /\ load = LoadIdle
  /\ faults = 0
  /\ ops = 0

NextBusy ==
  \/ dropFiles
  \/ handleSegmentImagesClick
  \/ readerOnload(1)
  \/ measureDone(1)
  \/ savePprPdf
  \/ compressImage
  \/ compressDone
  \/ renderImage
  \/ embedMetadata
  \/ finalize

SpecBusy == InitBusy /\ [][NextBusy]_vars

(* ------------------------------------------------------------------ *)
(* The codec on text: a string is encoded into the Keywords field and   *)
(* the field is decoded again                                           *)
(* ------------------------------------------------------------------ *)
\* Keywords payloads that no save wrote
ForeignKeywordTexts ==
  {<<"*">>, <<"A">>, <<"Q", "Q", "=", "=">>, <<"/", "/", "8", "=">>,
   <<"Q", "*", "=", "=">>}

InitCodec ==
  /\ segmentImages = createSegmentMap
  /\ imageCompressionState = createSegmentMap
  /\ imageProcessingErrors = createSegmentMap
  /\ imageDimensions = createSegmentMap
  /\ pending = <<>>
  /\ isModified = FALSE
  /\ doc = NewDoc
  /\ load = LoadIdle
  /\ faults = 0
  /\ ops = 0
  /\ \/ /\ \E str \in Strings : save = [pc |-> "embed", jsonString |-> str]
        /\ pdfFile = NoFile
     \/ /\ save = SaveIdle
        /\ \E b64 \in ForeignKeywordTexts :
             pdfFile = [keywords |-> [prefix |-> PDF_METADATA_KEYWORD_PREFIX,
                                      payload |-> b64]]

\* embedPayloadMetadata: embedded = encodeForPdf(jsonString), written behind
\* the prefix into the Keywords of the file
embedJsonString ==
  /\ save.pc = "embed"
  /\ pdfFile' = [keywords |-> [prefix |-> PDF_METADATA_KEYWORD_PREFIX,
                               payload |-> encodeForPdfText(save.jsonString)]]
  /\ save' = [pc |-> "idle", jsonString |-> save.jsonString]
  /\ UNCHANGED <<segmentImages, imageCompressionState, isModified, doc, load,
                 faults, ops,
                 imageProcessingErrors, imageDimensions, pending>>

\* readEmbeddedPprData: decoded = decodeFromPdf(embeddedValue)
decodeEmbeddedValue ==
  /\ pdfFile # NoFile
  /\ ~Has(load, "decoded")
  /\ load' = [pc |-> "idle",
              decoded |-> decodeFromPdfText(pdfFile.keywords.payload)]
  /\ UNCHANGED <<segmentImages, imageCompressionState, isModified, save, doc,
                 pdfFile, faults, ops,
                 imageProcessingErrors, imageDimensions, pending>>

NextCodec ==
  \/ embedJsonString
  \/ decodeEmbeddedValue

SpecCodec == InitCodec /\ [][NextCodec]_vars

(* ------------------------------------------------------------------ *)
(* Properties                                                         *)
(* ------------------------------------------------------------------ *)
\* a load has run to its end and applied its result
\* the last save wrote pdfFile and the load that followed read that file;
\* save.compressedImages holds one entry per image of the workspace saved
SavedThenLoaded ==
  /\ Loaded
  /\ save.pc = "idle" /\ Has(save, "payload")
  /\ load.file = pdfFile

\* the images of a list, by identity
Pixels(images) == [i \in DOMAIN images |-> images[i].px]

\* C1: with 1 to 3 images in each of the 4 segments and no compression,
\* render or extraction failure (no injected fault and no image the writer
\* skipped), saving and then loading the saved file gives every segment the
\* number of images it held before the save.
RoundTripCounts ==
  (/\ SavedThenLoaded
   /\ faults = 0
   /\ save.skippedImages = <<>>
   /\ \A s \in Segments :
        Len(save.compressedImages[s]) \in 1..MAX_IMAGES_PER_SEGMENT)
  => \A s \in Segments :
       Len(segmentImages[s]) = Len(save.compressedImages[s])

RoundTripCountsWitness ==
  /\ SavedThenLoaded
  /\ faults = 0
  /\ save.skippedImages = <<>>
  /\ \A s \in Segments : Len(save.compressedImages[s]) \in 1..MAX_IMAGES_PER_SEGMENT
  /\ \E s \in Segments : Len(save.compressedImages[s]) = 1
  /\ \E s \in Segments : Len(save.compressedImages[s]) = MAX_IMAGES_PER_SEGMENT
  /\ pdfFile.pages >= 2
  /\ \A s \in Segments : Len(segmentImages[s]) = Len(save.compressedImages[s])

\* C2: in one reconstruction pass every extraction index is claimed at most
\* once, whether through a placement bucket or through the fallback.
IndexClaimedAtMostOnce ==
  Loaded =>
    LET claims == load.result.claims
    IN \A i, j \in DOMAIN claims :
         (i # j /\ claims[i].idx # NoIdx) => claims[i].idx # claims[j].idx

\* C3: when every image is embedded and extracted, each segment's loaded list
\* holds that segment's saved images in the order they had in the workspace.
OrderPreserved ==
  (/\ SavedThenLoaded
   /\ faults = 0
   /\ save.skippedImages = <<>>
   /\ load.params.skippedImages = <<>>)
  => \A s \in Segments :
       Pixels(segmentImages[s]) = Pixels(save.compressedImages[s])

OrderPreservedWitness ==
  /\ SavedThenLoaded
  /\ faults = 0
  /\ save.skippedImages = <<>>
  /\ load.params.skippedImages = <<>>
  /\ \E s, t \in Segments :
       /\ s # t
       /\ Len(save.compressedImages[s]) = MAX_IMAGES_PER_SEGMENT
       /\ Len(save.compressedImages[t]) >= 2
       /\ Pixels(segmentImages[s]) = Pixels(save.compressedImages[s])
       /\ Pixels(segmentImages[t]) = Pixels(save.compressedImages[t])

\* the images a document holds on a page
ImagesOnPage(d, p) == {k \in DOMAIN d.images : d.images[k].page = p}

\* the (page, order) pairs of a list of placement records
PagePairs(records) == [k \in DOMAIN records |-> <<records[k].page, records[k].order>>]

\* C4: the manifest a save embeds has an imagePlacements entry
\* {alias, page, order} for every image renderSegmentImages placed.
PlacementsEmbedded ==
  save.pc = "finalize" =>
    LET manifest == decodeFromPdf(doc.keywords.payload).value
    IN \A k \in DOMAIN save.imagePlacements :
         /\ Has(manifest, "imagePlacements")
         /\ \E j \in DOMAIN manifest.imagePlacements :
              manifest.imagePlacements[j] =
                [alias |-> save.imagePlacements[k].alias,
                 page |-> save.imagePlacements[k].page,
                 order |-> save.imagePlacements[k].order]

\* C5: the document carries the embedded metadata only once
\* renderSegmentImages has handled every image of every segment; it is never
\* embedded while the save is compressing or rendering.
MetadataAfterRendering ==
  Has(doc, "keywords") =>
    /\ save.pc \in {"finalize", "idle"}
    /\ save.embeddedCount + Len(save.skippedImages)
         = SumOver([s \in Segments |-> Len(save.compressedImages[s])], Segments)

MetadataAfterRenderingWitness ==
  /\ save.pc = "finalize"
  /\ Has(doc, "keywords")
  /\ doc.pages >= 2
  /\ save.embeddedCount >= 5
  /\ \A s \in Segments : Len(save.compressedImages[s]) > 0

\* C6: on every page the writer's counter and the reader's counter start at
\* 1 and grow by 1 per image embedded / extracted on the page, and when every
\* image embeds and extracts the writer's (page, order) pairs are the reader's.
PlacementSymmetry ==
  /\ (save.pc \in {"render", "finalize"}) =>
       \A p \in DOMAIN save.pageImageCount :
         save.pageImageCount[p] = Cardinality(ImagesOnPage(doc, p))
  /\ (load.pc = "extract") =>
       \A p \in DOMAIN load.pageImageCounts :
         /\ load.pageImageCounts[p]
              = Cardinality({k \in DOMAIN load.imagePlacements :
                               load.imagePlacements[k].page = p})
         /\ {load.imagePlacements[k].order :
               k \in {j \in DOMAIN load.imagePlacements :
                        load.imagePlacements[j].page = p}}
              = 1..load.pageImageCounts[p]
  /\ (/\ SavedThenLoaded
      /\ faults = 0
      /\ save.skippedImages = <<>>
      /\ load.params.skippedImages = <<>>)
     => PagePairs(save.imagePlacements) = PagePairs(load.params.extractedPlacements)

\* C7: every extraction record carries the 0-based extraction index of its
\* image with its page and order, and an alias whose manifest placement is the
\* placement of an unclaimed extracted image is given that image.
ExtractionIndexUsed ==
  Loaded =>
    LET recs == load.params.extractedPlacements
        claims == load.result.claims
    IN /\ \A k \in DOMAIN recs :
            /\ Has(recs[k], "page") /\ Has(recs[k], "order")
            /\ Has(recs[k], "index") /\ recs[k].index = k - 1
       /\ \A k \in DOMAIN claims :
            LET matching == {i \in claims[k].unclaimed :
                               <<recs[i + 1].page, recs[i + 1].order>>
                                 = claims[k].target}
            IN matching # {} => claims[k].idx \in matching

\* C8: reconstruction's alias order is the manifest's imageManifest exactly
\* when that is a non-empty array as long as the sum of the declared counts;
\* otherwise it is seg{N}-img{K}, N ascending, K = 1..count(N).
ExpectedAliasOrder ==
  Loaded =>
    LET md == load.params.metadata
        segmentCount == load.params.segmentCount
        declared == IF Has(md, "segments") THEN md.segments ELSE <<>>
        counts == [N \in 1..segmentCount |->
                     IF N \in DOMAIN declared THEN declared[N] ELSE 0]
        order == load.result.reconstructionOrder
        trusted == /\ Has(md, "imageManifest")
                   /\ Len(md.imageManifest) = SumOver(declared, DOMAIN declared)
                   /\ Len(md.imageManifest) > 0
        Before(N) == SumOver(counts, 1..(N - 1))
    IN IF trusted
         THEN order = md.imageManifest
         ELSE /\ Len(order) = SumOver(counts, 1..segmentCount)
              /\ \A N \in 1..segmentCount :
                   \A K \in 1..counts[N] :
                     order[Before(N) + K] = [alias |-> Alias(N, K), segment |-> N]

ExpectedAliasOrderWitness ==
  /\ Loaded
  /\ Has(load.params.metadata, "imageManifest")
  /\ Len(load.params.metadata.imageManifest) >= 2
  /\ load.result.reconstructionOrder = load.params.metadata.imageManifest
  /\ load.result.reconstructionOrder[1].segment
       > load.result.reconstructionOrder[2].segment

\* C9: an alias without a placement target, or whose target no unclaimed
\* image matches, is given the unclaimed image of the smallest extraction
\* index, and the fallback flag is set exactly when some alias got its image
\* that way.
FallbackSmallestUnclaimed ==
  Loaded =>
    LET recs == load.params.extractedPlacements
        claims == load.result.claims
    IN /\ \A k \in DOMAIN claims :
            LET c == claims[k]
                matching == {i \in c.unclaimed :
                               <<recs[i + 1].page, recs[i + 1].order>> = c.target}
            IN (c.target = <<0, 0>> \/ matching = {}) =>
                 IF c.unclaimed = {} THEN c.idx = NoIdx
                 ELSE /\ c.idx \in c.unclaimed
                      /\ \A o \in c.unclaimed : c.idx <= o
       /\ load.result.usedFallbackAssignment
            <=> \E k \in DOMAIN claims : claims[k].via = "fallback"

\* C10: the leftover count is the number of extracted images no alias
\* claimed, and with only string images the images placed into segments plus
\* the leftover count make the number of extracted images.
LeftoverAccounting ==
  Loaded =>
    LET extractedImages == load.params.extractedImages
        claims == load.result.claims
        images == load.result.workspaceData.images
        neverClaimed == {i \in 0..(Len(extractedImages) - 1) :
                           \A k \in DOMAIN claims : claims[k].idx # i}
    IN /\ load.result.leftoverImagesCount = Cardinality(neverClaimed)
       /\ (\A i \in DOMAIN extractedImages : IsString(extractedImages[i]))
            => SumOver([s \in DOMAIN images |-> Len(images[s])], DOMAIN images)
                 + load.result.leftoverImagesCount
               = Len(extractedImages)

\* C11: the missing-images list has exactly one entry {segment, expected,
\* received} for each segment whose received count is below its declared
\* count and no other entry, and the images recovered are committed to the
\* workspace.
ShortfallReport ==
  Loaded =>
    LET md == load.params.metadata
        declared == IF Has(md, "segments") THEN md.segments ELSE <<>>
        images == load.result.workspaceData.images
        missing == load.result.missingImages
        Expected(s) == IF s \in DOMAIN declared THEN declared[s] ELSE 0
    IN /\ \A s \in 1..load.params.segmentCount :
            Cardinality({k \in DOMAIN missing : missing[k].segment = s})
              = IF Len(images[s]) < Expected(s) THEN 1 ELSE 0
       /\ \A k \in DOMAIN missing :
            /\ missing[k].segment \in 1..load.params.segmentCount
            /\ missing[k].expected = Expected(missing[k].segment)
            /\ missing[k].received = Len(images[missing[k].segment])
       /\ \A s \in Segments : segmentImages[s] = images[s]

ShortfallReportWitness ==
  /\ Loaded
  /\ load.params.metadata.segments[1] = 2
  /\ Len(load.params.extractedImages) = 1
  /\ Len(load.params.skippedImages) = 1
  /\ load.params.skippedImages[1].reason = "Timed out waiting for image data after rendering"
  /\ load.result.missingImages = <<[segment |-> 1, expected |-> 2, received |-> 1]>>
  /\ Len(segmentImages[1]) = 1

\* every segment received what it declares, nothing was skipped during
\* extraction and no extracted image was left over
FullyRecovered ==
  LET md == load.params.metadata
      declared == IF Has(md, "segments") THEN md.segments ELSE <<>>
      images == load.result.workspaceData.images
  IN /\ \A s \in 1..load.params.segmentCount :
          Len(images[s]) = (IF s \in DOMAIN declared THEN declared[s] ELSE 0)
     /\ Len(load.params.skippedImages) = 0
     /\ load.result.leftoverImagesCount = 0

\* the load ended with the plain success message
ReportedSuccess == load.toast.text = <<"Work loaded from PDF!">>

\* the manifest has placements and some alias got its image by fallback
FallbackNoticed ==
  /\ Has(load.params.metadata, "imagePlacements")
  /\ Len(load.params.metadata.imagePlacements) > 0
  /\ \E k \in DOMAIN load.result.claims : load.result.claims[k].via = "fallback"

\* C12 (as stated): the load is reported as a success with no notice exactly
\* when every segment received its declared count, no image was skipped and
\* none was left over.
SuccessIffRecovered == Loaded => (ReportedSuccess <=> FullyRecovered)

\* C12 (amended): the load is reported as a success with no notice exactly
\* when every segment received its declared count, no image was skipped,
\* none was left over, and no alias of a manifest with placements got its
\* image by fallback.
SuccessIffRecoveredWithoutFallback ==
  Loaded => (ReportedSuccess <=> (FullyRecovered /\ ~FallbackNoticed))

SuccessIffRecoveredWitness ==
  /\ Loaded
  /\ FullyRecovered
  /\ FallbackNoticed
  /\ ~ReportedSuccess
  /\ load.toast.text = <<"fallback">>
  /\ Len(load.params.extractedImages) >= 2

\* the file has no PPRDATA payload, or its payload does not decode, or the
\* decoded text does not validate
NoPayload(file) ==
  ~Has(file, "keywords") \/ file.keywords.prefix # PDF_METADATA_KEYWORD_PREFIX
Undecodable(file) ==
  ~NoPayload(file) /\ file.keywords.payload.alphabet # "base64"
NotJson(file) ==
  /\ ~NoPayload(file) /\ ~Undecodable(file)
  /\ ~(Has(file.keywords.payload.bytes, "text")
        /\ file.keywords.payload.bytes.text = "json")
NotObject(file) ==
  /\ ~NoPayload(file) /\ ~Undecodable(file) /\ ~NotJson(file)
  /\ file.keywords.payload.bytes.kind \notin {"object", "array"}
InvalidManifest(file) ==
  /\ ~NoPayload(file) /\ ~Undecodable(file) /\ ~NotJson(file)
  /\ ~NotObject(file)
  /\ Has(file.keywords.payload.bytes.value, "segments")
  /\ \E s \in Segments :
       \/ s \notin DOMAIN file.keywords.payload.bytes.value.segments
       \/ file.keywords.payload.bytes.value.segments[s] < 0
Unrecognized(file) ==
  \/ NoPayload(file) \/ Undecodable(file) \/ NotJson(file)
  \/ NotObject(file) \/ InvalidManifest(file)

\* C13: a load of a file without PPRDATA payload, with an undecodable
\* payload or with text that fails validation ends in the step after the
\* read: no extraction starts, applyLoadedData is not called and the
\* workspace is as before the load.
UnrecognizedSaveStops ==
  [][(load.pc = "read" /\ Unrecognized(load.file)) =>
       /\ load'.pc = "idle"
       /\ load'.outcome \in {"notPpr", "invalid"}
       /\ segmentImages' = segmentImages
       /\ imageCompressionState' = imageCompressionState
       /\ isModified' = isModified]_vars

UnrecognizedSaveStopsWitness ==
  /\ load.pc = "idle"
  /\ Has(load, "outcome") /\ load.outcome \in {"notPpr", "invalid"}
  /\ \A s \in Segments : Len(segmentImages[s]) > 0
  /\ isModified

\* the payload text is JSON, but not JSON for an object
NotJsonObject(file) ==
  /\ ~NoPayload(file) /\ ~Undecodable(file) /\ ~NotJson(file)
  /\ file.keywords.payload.bytes.kind # "object"

\* C14: a payload outside the Base64 alphabet decodes to null, text that is
\* not JSON or not JSON for an object parses to null, and the load that reads
\* such a file ends with its error toast instead of going on.
MalformedManifestGraceful ==
  [][(load.pc = "read"
      /\ (Undecodable(load.file) \/ NotJson(load.file)
            \/ NotJsonObject(load.file))) =>
       /\ Undecodable(load.file) =>
            decodeFromPdf(load.file.keywords.payload) = Null
       /\ ~Undecodable(load.file) =>
            parsePprJson(decodeFromPdf(load.file.keywords.payload)) = Null
       /\ load'.pc = "idle"
       /\ load'.outcome =
            IF Undecodable(load.file) THEN "notPpr" ELSE "invalid"]_vars

\* a string is well formed when it has no unpaired surrogate
RECURSIVE IsWellFormed(_)
IsWellFormed(str) ==
  IF Len(str) = 0 THEN TRUE
  ELSE IF IsHighSurrogate(str[1])
    THEN Len(str) >= 2 /\ IsLowSurrogate(str[2])
         /\ IsWellFormed(SubSeq(str, 3, Len(str)))
  ELSE ~IsLowSurrogate(str[1]) /\ IsWellFormed(Tail(str))

StartsWithByteOrderMark(str) == Len(str) > 0 /\ str[1] = 65279

Encoded == Has(save, "jsonString") /\ pdfFile # NoFile
RoundTripped == Encoded /\ Has(load, "decoded")

OnlyBase64Characters ==
  Encoded =>
    \A i \in 1..Len(pdfFile.keywords.payload) :
      pdfFile.keywords.payload[i] \in Base64Chars \cup {"="}

\* C15 as stated: every string, encoded and decoded, is the same string again,
\* and its encoding has only characters of the Base64 alphabet.
CodecRoundTrip ==
  /\ OnlyBase64Characters
  /\ RoundTripped => load.decoded = [string |-> save.jsonString]

\* C15: every string without an unpaired surrogate that does not start with
\* U+FEFF, encoded and decoded, is the same string again, and the encoding of
\* every string has only characters of the Base64 alphabet.
CodecRoundTripWellFormed ==
  /\ OnlyBase64Characters
  /\ (RoundTripped /\ IsWellFormed(save.jsonString)
        /\ ~StartsWithByteOrderMark(save.jsonString))
       => load.decoded = [string |-> save.jsonString]

CodecRoundTripWitness ==
  /\ RoundTripped
  /\ save.jsonString = <<8364, 55357, 56832>>
  /\ load.decoded = [string |-> save.jsonString]

\* the manifest of the file is an object whose segments mapping has valid
\* counts but lacks the entry of some segment
LacksSegmentEntry(file) ==
  /\ ~NoPayload(file) /\ ~Undecodable(file) /\ ~NotJson(file)
  /\ ~NotJsonObject(file)
  /\ Has(file.keywords.payload.bytes.value, "segments")
  /\ \E s \in Segments :
       s \notin DOMAIN file.keywords.payload.bytes.value.segments
  /\ \A s \in DOMAIN file.keywords.payload.bytes.value.segments :
       file.keywords.payload.bytes.value.segments[s] >= 0

\* C16: a manifest whose segments mapping lacks the entry of a segment is
\* accepted, and the load goes on with count 0 for that segment.
MissingEntriesPermitted ==
  [][(load.pc = "read" /\ LacksSegmentEntry(load.file)) =>
       /\ load'.pc = "extract"
       /\ \A s \in Segments :
            s \notin DOMAIN load.file.keywords.payload.bytes.value.segments
              => load'.data.segments[s] = 0]_vars

\* a manifest of an old save: studentName and segments, no imageManifest and
\* no imagePlacements
LegacyManifest(data) ==
  /\ Has(data, "studentName") /\ Has(data, "segments")
  /\ ~Has(data, "imageManifest") /\ ~Has(data, "imagePlacements")
  /\ \A s \in Segments : s \in DOMAIN data.segments /\ data.segments[s] >= 0

LegacyFile(file) ==
  /\ ~NoPayload(file) /\ ~Undecodable(file) /\ ~NotJson(file)
  /\ ~NotJsonObject(file)
  /\ LegacyManifest(file.keywords.payload.bytes.value)

\* the number of images the segments before s declare
RECURSIVE DeclaredBefore(_, _)
DeclaredBefore(segments, s) ==
  IF s <= 1 THEN 0 ELSE segments[s - 1] + DeclaredBefore(segments, s - 1)

ManifestCountsConsistent ==
  /\ Has(save, "payload") =>
       /\ SumOver(save.payload.segments, Segments)
            = Len(save.payload.imageManifest)
       /\ Len(save.imagePlacements) <= Len(save.payload.imageManifest)
  /\ (pdfFile # NoFile /\ Has(pdfFile, "keywords")) =>
       LET manifest == decodeFromPdf(pdfFile.keywords.payload).value
       IN SumOver(manifest.segments, Segments) = Len(manifest.imageManifest)

ManifestCountsConsistentWitness ==
  /\ save.pc = "idle" /\ Has(save, "payload")
  /\ pdfFile # NoFile
  /\ Len(save.payload.imageManifest) >= 2
  /\ Len(save.imagePlacements) >= 1
  /\ Len(save.imagePlacements) < Len(save.payload.imageManifest)
  /\ decodeFromPdf(pdfFile.keywords.payload).value.segments[1] >= 1

\* C19: the manifest of a save lists, segment ascending and in list order,
\* alias seg{N}-img{K} for the K-th image of segment N, the alias map holds
\* the same aliases per segment, and a second save of the same workspace
\* computes the imageManifest the first save wrote.
AliasDeterminism ==
  (Has(save, "payload") /\ save.pc # "idle") =>
    LET manifest == save.payload.imageManifest
    IN /\ \A k \in DOMAIN manifest :
            manifest[k].alias =
              [seg |-> manifest[k].segment,
               img |-> Cardinality({j \in 1..k :
                                      manifest[j].segment = manifest[k].segment})]
       /\ \A j, k \in DOMAIN manifest :
            j < k => manifest[j].segment <= manifest[k].segment
       /\ \A s \in Segments :
            /\ Cardinality({k \in DOMAIN manifest : manifest[k].segment = s})
                 = Len(segmentImages[s])
            /\ save.aliasMap[s] =
                 [i \in 1..Len(segmentImages[s]) |-> [seg |-> s, img |-> i]]
       /\ (pdfFile # NoFile /\ ~Loaded) =>
            decodeFromPdf(pdfFile.keywords.payload).value.imageManifest = manifest

AliasDeterminismWitness ==
  /\ save.pc = "render" /\ Has(save, "payload")
  /\ pdfFile # NoFile /\ ~Loaded
  /\ Len(segmentImages[1]) = 2 /\ Len(segmentImages[3]) = 1
  /\ Len(save.payload.imageManifest) = 3
  /\ save.payload.imageManifest[3].alias = [seg |-> 3, img |-> 1]
  /\ decodeFromPdf(pdfFile.keywords.payload).value.imageManifest
       = save.payload.imageManifest

\* a save is running, it has built its manifest, and the load on record came
\* before it
SavedAfterLoad == Loaded /\ Has(save, "payload") /\ save.pc # "idle"

\* C20: when a load recovered every declared image and a save follows with
\* no edit in between, the manifest of that save has the per-segment counts
\* and the alias list of the loaded manifest, and so has the file it writes.
ResaveIdempotent ==
  (SavedAfterLoad /\ FullyRecovered) =>
    /\ save.payload.segments = load.params.metadata.segments
    /\ save.payload.imageManifest = load.params.metadata.imageManifest
    /\ save.pc = "finalize" =>
         LET written == decodeFromPdf(doc.keywords.payload).value
         IN /\ written.segments = load.params.metadata.segments
            /\ written.imageManifest = load.params.metadata.imageManifest

ResaveIdempotentWitness ==
  /\ SavedAfterLoad /\ FullyRecovered /\ save.pc = "finalize"
  /\ load.params.metadata.segments[1] = 2
  /\ load.params.metadata.segments[2] = 1
  /\ decodeFromPdf(doc.keywords.payload).value.imageManifest
       = load.params.metadata.imageManifest

\* C21: in every reachable state the images, the compression flags, the
\* error flags and the cached dimensions of a segment have the same length,
\* and the cached dimensions at index i, when present, are those of image i
IndexAlignment ==
  \A s \in Segments :
    /\ Len(imageCompressionState[s]) = Len(segmentImages[s])
    /\ Len(imageProcessingErrors[s]) = Len(segmentImages[s])
    /\ Len(imageDimensions[s]) = Len(segmentImages[s])
    /\ \A i \in 1..Len(segmentImages[s]) :
         \/ imageDimensions[s][i] = Null
         \/ imageDimensions[s][i] = measureImageDimensions(segmentImages[s][i])

\* C22: no segment ever holds more than MAX_IMAGES_PER_SEGMENT images
SegmentCapacity ==
  \A s \in Segments : Len(segmentImages[s]) <= MAX_IMAGES_PER_SEGMENT

\* the metadata of every segment is as a load leaves it: every image
\* trusted, no error, no cached size, every array as long as the image list
FreshlyLoaded ==
  \A s \in Segments :
    /\ segmentImages[s] = load.result.workspaceData.images[s]
    /\ imageCompressionState[s] = [i \in 1..Len(segmentImages[s]) |-> TRUE]
    /\ imageProcessingErrors[s] = [i \in 1..Len(segmentImages[s]) |-> FALSE]
    /\ imageDimensions[s] = [i \in 1..Len(segmentImages[s]) |-> Null]

\* C23: the step in which applyLoadedData replaces the images leaves every
\* segment with all compression flags true, all error flags false, all cached
\* dimensions empty, every metadata array as long as the new image list, and
\* the modified flag false
LoadResetsMetadata ==
  [][(load.pc = "extract" /\ Loaded') => (FreshlyLoaded /\ ~isModified)']_vars

\* a load has just replaced a workspace of untrusted, measured images
LoadResetsMetadataWitness ==
  /\ Loaded
  /\ SavedThenLoaded
  /\ FreshlyLoaded
  /\ ~isModified
  /\ \A s \in Segments : Len(segmentImages[s]) >= 2
  /\ Len(pending) = SumOver([s \in Segments |-> Len(segmentImages[s])], Segments)

\* the compression loop of the running save is past image i of segment s
Processed(s, i) ==
  save.segment > s \/ (save.segment = s /\ i <= save.idx)

\* the calls of the compress function for image i of segment s so far
CompressCallsFor(s, i) ==
  Cardinality({k \in 1..Len(save.compressCalls) :
                 save.compressCalls[k] = [segment |-> s, index |-> i - 1]})

\* the images of segment s before image i whose compression failed
FailuresBefore(s, i) ==
  Cardinality({k \in 1..Len(save.compressionFailures) :
                 /\ save.compressionFailures[k].segment = s
                 /\ save.compressionFailures[k].index < i - 1})

\* C24: while a save compresses, an image whose compression flag is set is
\* never given to the compress function and is handed on as it is stored; an
\* image whose flag is not set has been given to the compress function exactly
\* once when the loop is past it, and not before
PassThroughTrusted ==
  save.pc = "compress" =>
    \A s \in Segments : \A i \in 1..Len(segmentImages[s]) :
      IF imageCompressionState[s][i]
        THEN /\ CompressCallsFor(s, i) = 0
             /\ Processed(s, i) =>
                  save.compressedImages[s][i - FailuresBefore(s, i)]
                    = segmentImages[s][i]
        ELSE CompressCallsFor(s, i) = (IF Processed(s, i) THEN 1 ELSE 0)

\* the loop has passed every image of a workspace that holds trusted and
\* untrusted images
PassThroughTrustedWitness ==
  /\ save.pc = "compress"
  /\ save.segment > SEGMENT_COUNT \/
       (save.segment = SEGMENT_COUNT
        /\ save.idx = Len(segmentImages[SEGMENT_COUNT]))
  /\ \E s \in Segments : \E i, j \in 1..Len(segmentImages[s]) :
       /\ imageCompressionState[s][i] /\ ~imageCompressionState[s][j]
       /\ Processed(s, i) /\ Processed(s, j)
       /\ CompressCallsFor(s, j) = 1

\* a step of the compression loop in which the compress function rejected
\* the image at the loop position
CompressionRejected ==
  /\ save.pc = "compress" /\ save'.pc = "compress"
  /\ Len(save'.compressionFailures) = Len(save.compressionFailures) + 1

\* C25: a compression failure sets the error flag of the failed image only,
\* adds one failure record with its segment and index and lets the loop go on
\* to the next image; and when the loop ends after a failure the save goes on
\* to write a document with the images that were compressed
CompressionFailureIsolated ==
  [][/\ CompressionRejected =>
          LET pos == LoopPos(segmentImages, save.segment, save.idx)
          IN /\ save'.compressionFailures =
                  Append(save.compressionFailures,
                         [segment |-> pos[1], index |-> pos[2]])
             /\ imageProcessingErrors' =
                  [imageProcessingErrors EXCEPT ![pos[1]][pos[2] + 1] = TRUE]
             /\ save'.segment = pos[1] /\ save'.idx = pos[2] + 1
             /\ save'.compressedImages = save.compressedImages
     /\ (save.pc = "compress" /\ save'.pc # "compress"
         /\ save.compressionFailures # <<>>) =>
          /\ save'.pc = "render"
          /\ save'.compressedImages = save.compressedImages
    ]_vars

\* compressDataUrl has resolved for an image larger than a limit
ScaledDown ==
  /\ Has(save, "result")
  /\ (save.dataUrl.width > MAX_IMAGE_WIDTH
      \/ save.dataUrl.height > MAX_IMAGE_HEIGHT)

\* <<floor(w * s), floor(h * s)>> for the rational s = min(maxWidth / w,
\* maxHeight / h)
ExactScaledSize(w, h, maxWidth, maxHeight) ==
  IF maxWidth * h <= maxHeight * w
    THEN <<maxWidth, (h * maxWidth) \div w>>
    ELSE <<(w * maxHeight) \div h, maxHeight>>

\* C26 as stated: an image within the limits keeps its size, a larger one
\* gets the size <<floor(w * s), floor(h * s)>> with s = min(maxWidth / w,
\* maxHeight / h)
CompressionExactSize ==
  Has(save, "result") =>
    LET w == save.dataUrl.width
        h == save.dataUrl.height
    IN <<save.result.width, save.result.height>> =
         (IF ScaledDown
            THEN ExactScaledSize(w, h, MAX_IMAGE_WIDTH, MAX_IMAGE_HEIGHT)
            ELSE <<w, h>>)

\* C26, amended: an image within the limits keeps its size; for a larger one
\* neither output dimension exceeds its limit, and each is floor(w * s) or
\* floor(h * s) for s = min(maxWidth / w, maxHeight / h), or one less
CompressionSizeBound ==
  Has(save, "result") =>
    LET w == save.dataUrl.width
        h == save.dataUrl.height
        exact == ExactScaledSize(w, h, MAX_IMAGE_WIDTH, MAX_IMAGE_HEIGHT)
    IN IF ScaledDown
         THEN /\ save.result.width <= MAX_IMAGE_WIDTH
              /\ save.result.height <= MAX_IMAGE_HEIGHT
              /\ save.result.width \in {exact[1], exact[1] - 1}
              /\ save.result.height \in {exact[2], exact[2] - 1}
         ELSE /\ save.result.width = w
              /\ save.result.height = h

\* the example of the claim: 3200 x 2400 becomes 1600 x 1200
CompressionSizeBoundWitness ==
  /\ ScaledDown
  /\ save.dataUrl.width = 3200 /\ save.dataUrl.height = 2400
  /\ save.result.width = 1600 /\ save.result.height = 1200

\* a step of the embedding loop in which doc.addImage threw
RenderErrorStep ==
  /\ save.pc = "render" /\ save'.pc = "render"
  /\ Len(save'.skippedImages) = Len(save.skippedImages) + 1
  /\ save'.skippedImages[Len(save'.skippedImages)].reason = "renderError"

\* the images handed to renderSegmentImages
TotalToEmbed(r) ==
  SumOver([s \in Segments |-> Len(r.compressedImages[s])], Segments)

\* C27: when embedding an image throws, one skip with reason "renderError"
\* and the segment and index of that image is recorded and the loop goes on
\* with the next image; when the loop has ended every image was either
\* embedded or recorded as skipped, and the save ends by writing the document
\* with the embedded images
RenderErrorContinues ==
  [][/\ RenderErrorStep =>
          LET pos == LoopPos(save.compressedImages, save.segment, save.imgIdx)
          IN /\ save'.skippedImages =
                  Append(save.skippedImages,
                         [segment |-> pos[1], index |-> pos[2],
                          reason |-> "renderError"])
             /\ save'.embeddedCount = save.embeddedCount
             /\ <<save'.segment, save'.imgIdx>> =
                  (IF pos[2] + 1 >= Len(save.compressedImages[pos[1]])
                     THEN <<pos[1] + 1, 0>> ELSE <<pos[1], pos[2] + 1>>)
     /\ (save.pc = "render" /\ save'.pc # "render") =>
          /\ save'.pc = "finalize"
          /\ save.embeddedCount + Len(save.skippedImages) = TotalToEmbed(save)
     /\ (save.pc = "finalize" /\ save'.pc # "finalize") =>
          /\ save'.pc = "idle"
          /\ pdfFile' = doc
          /\ Len(pdfFile'.images) = save.embeddedCount
    ]_vars

\* a save has ended in which the first image of segment 1 could not be
\* embedded and later images of the same and of a later segment were
RenderErrorContinuesWitness ==
  /\ save.pc = "idle" /\ Has(save, "skippedImages")
  /\ pdfFile = doc
  /\ \E k \in 1..Len(save.skippedImages) :
       save.skippedImages[k] =
         [segment |-> 1, index |-> 0, reason |-> "renderError"]
  /\ Len(save.compressedImages[1]) >= 2 /\ Len(save.compressedImages[2]) >= 1
  /\ \E m, n \in 1..Len(pdfFile.images) :
       /\ pdfFile.images[m].data = save.compressedImages[1][2]
       /\ pdfFile.images[n].data = save.compressedImages[2][1]

\* a step of extractImagesFromPdf on one image paint operation
ExtractStep ==
  /\ load.pc = "extract" /\ load'.pc = "extract"
  /\ <<load'.pageNum, load'.i>> # <<load.pageNum, load.i>>

\* C28: for each embedded image loadPdfImageWithRenderRetry waits once or
\* twice and forces at most one page render, which comes before the second
\* wait; it either returns the image (which is extracted, or dropped when
\* its redraw throws) or fails, and the failure becomes exactly one
\* skippedImages record with the page and a reason; in every case
\* extraction goes on with the next operation
BoundedWaitSingleRetry ==
  [][ExtractStep =>
       LET pos == LoopPosN(pageOperators(load.file), load.file.pages,
                           load.pageNum, load.i)
       IN /\ load'.waits \in 1..2
          /\ load'.renders \in 0..1
          /\ load'.waits = 2 <=> load'.renders = 1
          /\ \/ /\ Len(load'.images) = Len(load.images) + 1
                /\ load'.skippedImages = load.skippedImages
             \/ /\ load'.images = load.images
                /\ load'.skippedImages = load.skippedImages
             \/ /\ load'.images = load.images
                /\ Len(load'.skippedImages) = Len(load.skippedImages) + 1
                /\ SubSeq(load'.skippedImages, 1, Len(load.skippedImages))
                     = load.skippedImages
                /\ LET skipInfo == load'.skippedImages[Len(load'.skippedImages)]
                   IN /\ skipInfo.page = pos[1]
                      /\ skipInfo.reason \in
                           {"Timed out waiting for image data",
                            "Timed out waiting for image data after rendering"}
          /\ <<load'.pageNum, load'.i>> = <<pos[1], pos[2] + 1>>
    ]_vars

\* an image timed out after the forced render and was skipped, and a later
\* image of the same page has been extracted since
BoundedWaitSingleRetryWitness ==
  /\ load.pc = "extract"
  /\ Len(load.skippedImages) = 1
  /\ load.skippedImages[1].reason =
       "Timed out waiting for image data after rendering"
  /\ \E k \in 1..Len(load.imageNames) :
       /\ load.imageNames[k].page = load.skippedImages[1].page
       /\ load.imageNames[k].op > load.skippedImages[1].imageName.op

\* an image timed out on a page that an earlier image had made render: one
\* wait, no retry
SingleWaitOnRenderedPage ==
  /\ load.pc = "extract"
  /\ Len(load.skippedImages) = 1
  /\ load.skippedImages[1].reason = "Timed out waiting for image data"
  /\ load.waits = 1 /\ load.renders = 0

\* C29: the step that ends a save by a compression failure, and the step
\* that ends a load because the manifest is missing or invalid, leave the
\* image lists and the compression, error and dimension metadata as they were
\* when the operation started
FailureLeavesStore ==
  [][/\ (save.pc = "compress" /\ save'.pc = "idle") =>
          WorkspaceStore' = save.before
     /\ (load.pc = "read" /\ load'.pc = "idle") =>
          WorkspaceStore' = load.before
    ]_vars

\* C30: while a save pipeline is in progress the save control is disabled,
\* and a save starts only when no pipeline is in progress
NoOverlappingSaves ==
  [][/\ (save'.pc # "idle" => SaveDisabled')
     /\ (save'.pc = "compress" /\ save' # save /\ save.pc # "compress") =>
          save.pc = "idle"
     /\ (save.pc = "compress" /\ save'.pc = "compress") =>
          (save'.segment > save.segment
           \/ (save'.segment = save.segment /\ save'.idx > save.idx))
    ]_vars

\* a save is rendering and only the disabled control keeps a second save
\* from starting
NoOverlappingSavesWitness ==
  /\ save.pc = "render"
  /\ SaveDisabled
  /\ load.pc = "idle" /\ Quiet /\ ops < MaxOps
  /\ \E s \in Segments : Len(segmentImages[s]) > 0

\* C31: the writer's per-page order counter advances only for images
\* actually embedded: while and after rendering, the placement records are as
\* many as the embedded images, and on every page the order values recorded
\* are exactly 1..k for the k images embedded on that page.
OrderCountsEmbeddedOnly ==
  save.pc \in {"render", "finalize"} =>
    /\ Len(save.imagePlacements) = Len(doc.images)
    /\ \A p \in 1..doc.pages :
         /\ save.pageImageCount[p] = Cardinality(ImagesOnPage(doc, p))
         /\ {save.imagePlacements[k].order :
               k \in {j \in DOMAIN save.imagePlacements :
                        save.imagePlacements[j].page = p}}
              = 1..Cardinality(ImagesOnPage(doc, p))

\* the images of a segment in the written document, by position in doc.images
EmbeddedOf(d, s) == {k \in DOMAIN d.images : d.images[k].alias.seg = s}

\* the texts of the document that are lines of a segment label
LabelTexts(d) ==
  {t \in DOMAIN d.texts :
     \E s \in Segments : \E i \in DOMAIN SEGMENT_LABEL_LINES[s] :
       d.texts[t].text = SEGMENT_LABEL_LINES[s][i]}

\* C32: in the document a save lays out, every segment with an embedded
\* image has its label lines directly above its first embedded image on that
\* image's page, the label lines are emitted once per such segment, and none
\* is emitted for a segment none of whose images is embedded.
LabelOncePerEmbeddedSegment ==
  save.pc = "finalize" =>
    /\ \A s \in Segments :
         EmbeddedOf(doc, s) # {} =>
           LET first == doc.images[CHOOSE k \in EmbeddedOf(doc, s) :
                                     \A j \in EmbeddedOf(doc, s) : k <= j]
               lines == SEGMENT_LABEL_LINES[s]
           IN \A i \in DOMAIN lines :
                \E t \in DOMAIN doc.texts :
                  doc.texts[t] =
                    [page |-> first.page,
                     y |-> first.y - (Len(lines) - i + 1) * textLineHeightPt,
                     text |-> lines[i]]
    /\ Cardinality(LabelTexts(doc))
         = SumOver([s \in Segments |->
                      IF EmbeddedOf(doc, s) # {}
                        THEN Len(SEGMENT_LABEL_LINES[s]) ELSE 0], Segments)

\* a rendered dimension (a double) is at most the integer c
AtMost(v, c) == v.floor < c \/ (v.floor = c /\ v.excess = "none")

\* a rendered dimension is at most the integer c or the next double above c
AtMostOneUlpAbove(v, c) ==
  v.floor < c \/ (v.floor = c /\ v.excess \in {"none", "ulp"})

\* the scale of an image renderSegmentImages goes on to embed was computed
Scaled == save.pc \in {"scaled", "rescaled"}

\* C33 as stated: the render scale is at most 1, the rendered width is at
\* most min(intrinsic width, page content width) and the rendered height is
\* at most min(intrinsic height, page content height).
NeverUpscalesWithinContent ==
  Scaled =>
    /\ save.scale[1] <= save.scale[2]
    /\ AtMost(save.w, Min2(save.props.width, PageWidth - marginPt * 2))
    /\ AtMost(save.h, Min2(save.props.height, PageHeight - marginPt * 2))

\* C33, amended: the render scale is at most 1 and neither rendered
\* dimension is above the intrinsic one; the rendered width is at most the
\* page content width, and the rendered height is at most the height limit
\* the scale was computed against or the next double above that limit.
NeverUpscales ==
  Scaled =>
    /\ save.scale[1] <= save.scale[2]
    /\ AtMost(save.w, save.props.width)
    /\ AtMost(save.h, save.props.height)
    /\ AtMost(save.w, save.maxW)
    /\ AtMostOneUlpAbove(save.h, save.maxH)

NeverUpscalesWitness ==
  /\ save.pc = "scaled"
  /\ save.props = [width |-> 400, height |-> 1140]
  /\ save.scale = <<712, 1140>>
  /\ save.h = [floor |-> 712, excess |-> "ulp"]
  /\ save.w.floor = 249

\* C34: every image the writer embeds lies inside the page content area
\* vertically: it is placed at y >= top margin and its lower edge y + rendered
\* height is at most pageHeight - margin, for the first image of a segment and
\* for later images, after a page break under a "(cont.)" label included.
EmbeddedWithinContentArea ==
  save.pc \in {"render", "finalize"} =>
    \A k \in DOMAIN doc.images :
      /\ doc.images[k].y >= marginPt
      /\ doc.images[k].y + doc.images[k].h <= PageHeight - marginPt

\* the images of the written document d that belong to segment s, in order
RECURSIVE WrittenIn(_, _, _)
WrittenIn(d, s, k) ==
  IF k > Len(d.images) THEN <<>>
  ELSE (IF d.images[k].alias.seg = s THEN <<d.images[k].data.px>> ELSE <<>>)
         \o WrittenIn(d, s, k + 1)

\* C35: a save that completes without skipping an image embeds the
\* workspace as it was when the save began: the per-segment counts of the
\* embedded manifest and the images embedded, segment by segment, are those
\* of the image lists at the instant savePprPdf started, whatever addImage and
\* removeImage did at the save's suspension points.
SaveSnapshotConsistent ==
  (save.pc = "finalize" /\ save.skippedImages = <<>>) =>
    LET manifest == decodeFromPdf(doc.keywords.payload).value
    IN \A s \in Segments :
         /\ manifest.segments[s] = Len(save.before.images[s])
         /\ WrittenIn(doc, s, 1) = Pixels(save.before.images[s])

\* C36: reconstruction never gives a segment more images than the
\* manifest declares for it, whether the alias order is the imageManifest or
\* the order synthesized from the counts.
ReconstructionWithinDeclared ==
  Loaded =>
    \A s \in 1..load.params.segmentCount :
      Len(load.result.workspaceData.images[s])
        <= declaredCount(segmentsOf(load.params.metadata), s)

\* the image paint operations extractImagesFromPdf has met so far: those of
\* the pages before load.pageNum and the first load.i of that page
PaintOperationsMet ==
  SumOver([p \in 1..load.file.pages |->
             IF p < load.pageNum THEN Len(pageOperators(load.file)[p])
             ELSE IF p = load.pageNum THEN load.i ELSE 0],
          1..load.file.pages)

\* C37: extraction accounts for every image: at every point of the walk
\* and at its end, the extracted images (each with its placement) plus the
\* skip records are as many as the image paint operations met.
ExtractionAccountsForAll ==
  /\ load.pc = "extract" =>
       /\ Len(load.images) = Len(load.imagePlacements)
       /\ Len(load.images) + Len(load.skippedImages) = PaintOperationsMet
  /\ Loaded =>
       Len(load.params.extractedImages) + Len(load.params.skippedImages)
         = Len(load.file.images)

\* C38: the unsaved-changes flag never hides a change: while isModified
\* is false after a save that wrote every image handed to it (no load has run
\* since), the image lists of the workspace are those written to the file,
\* whatever addImage and removeImage did while the save was in progress.
ModifiedFlagNeverHidesChange ==
  (/\ ~isModified
   /\ pdfFile # NoFile
   /\ ~Has(load, "outcome")
   /\ Len(pdfFile.images)
        = SumOver(decodeFromPdf(pdfFile.keywords.payload).value.segments,
                  Segments))
  => \A s \in Segments :
       Pixels(segmentImages[s]) = WrittenIn(pdfFile, s, 1)


\* C39: every load that disables the load button enables it again in the end,
\* whatever its outcome: loaded, no PPR payload, invalid manifest, a PDF
\* loader that fails to initialise, an exception while extracting
LoadControlReenabled == LoadDisabled ~> ~LoadDisabled

====
